---- MODULE Spec2Model ----
(***************************************************************************)
(* Routing and conversation-state core of the agentic call center:         *)
(*   - ConfigurationManager (config_manager.py): agents, channels and      *)
(*     mappings in persistent storage with a per-process TTL cache;        *)
(*   - the config UI handlers that call it (routers/config_ui.py);         *)
(*   - MultiAgentRouter (multi_agent_router.py) and the                     *)
(*     MultiContainerConversationStore it writes to;                       *)
(*   - ServiceBusBackgroundProcessor (servicebus_processor.py).            *)
(* Persistent storage is shared by the service instances; every cache is   *)
(* private to one instance.                                                *)
(***************************************************************************)
EXTENDS Integers, Sequences, FiniteSets, TLC

VARIABLES
    db,       \* persistent registry storage: [agents, channels, mappings], each a
              \* sequence of documents in insertion order
    cache,    \* cache[i]: ConfigurationManager caches of instance i and their timestamp
    now,      \* wall clock (datetime.utcnow()), in seconds
    ret,      \* what the last operation was and what it returned
    writes,   \* number of registry write operations made so far
    ticks,    \* number of clock advances made so far
    routing,  \* routing[i]: MultiAgentRouter._routing_cache of instance i and its timestamp
    store,    \* the conversation documents of all phone containers
    inv,      \* inv[i]: the process_message invocation of instance i
    calls,    \* number of process_message invocations started so far
    queue,    \* the messages of the Service Bus queue and their delivery state
    outbox,   \* the responses sent out through the channels
    running,  \* ServiceBusBackgroundProcessor.running
    tasks,    \* the receive-loop tasks created by start(), in order of creation
    task,     \* ServiceBusBackgroundProcessor.task: None or the index of a task
    caller,   \* where the caller of start() and stop() is
    broker,   \* whether the Service Bus namespace can be reached
    outages,  \* number of broker outages so far
    environ   \* os.environ of the process: the variables set, with their values

routerVars == <<routing, store, inv, calls>>

queueVars == <<queue, outbox, running>>

loopVars == <<tasks, task, caller, broker, outages>>

vars == <<db, cache, now, ret, writes, ticks, routing, store, inv, calls,
          queue, outbox, running, tasks, task, caller, broker, outages,
          environ>>

----------------------------------------------------------------------------
(* Bounds of the model *)

MaxWrites == 2
MaxTicks == 1
MaxCalls == 2

(* Program constants *)

CacheTTL == 300
RoutingTTL == 300
SecondsPerDay == 86400

NoTime == -1

Instances == {1, 2}
AgentIds == {"asst_A1", "asst_A2"}
ChannelIds == {"c1", "c2"}
MappingIds == {"m1", "m2"}
ChannelTypes == {"whatsapp", "sms"}

(* A string the code inspects: its characters after an optional leading '+'. *)
Str(plus, body) == [plus |-> plus, body |-> body]
P1 == Str(TRUE, "15550001")
P2 == Str(TRUE, "15550009")
Phones == {P1, P2}

TickSteps == {301, 86400}

----------------------------------------------------------------------------
(* Python dicts keyed by the document id, in insertion order *)

DictHas(d, id) == \E n \in 1..Len(d) : d[n].id = id

DictGet(d, id) == SelectSeq(d, LAMBDA x : x.id = id)

DictPut(d, doc) ==
    IF DictHas(d, doc.id)
    THEN [n \in 1..Len(d) |-> IF d[n].id = doc.id THEN doc ELSE d[n]]
    ELSE Append(d, doc)

DictDel(d, id) == SelectSeq(d, LAMBDA x : x.id # id)

DictKeys(d) == {d[n].id : n \in 1..Len(d)}

(* Optional[...]: the empty sequence is None, <<x>> is the value x *)
None == <<>>
First(s) == IF Len(s) = 0 THEN None ELSE <<s[1]>>

----------------------------------------------------------------------------
(* Documents *)

AgentDoc(a) == [id |-> a, agent_id |-> a]

ChannelDoc(c, phone, type, active) ==
    [id |-> c, channel_id |-> c, phone_number |-> phone,
     channel_type |-> type, is_active |-> active]

MappingDoc(m, a, c, primary, active) ==
    [id |-> m, mapping_id |-> m, agent_id |-> a, channel_id |-> c,
     is_primary |-> primary, is_active |-> active]

EmptyCache == [agents |-> <<>>, channels |-> <<>>, mappings |-> <<>>, ts |-> NoTime]

----------------------------------------------------------------------------
(* ConfigurationManager, as functions of R = [db, c]: the storage and the   *)
(* caches of the calling instance.                                          *)

TimedeltaSeconds(d) == d % SecondsPerDay

NeedsRefresh(ts) == ts = NoTime \/ TimedeltaSeconds(now - ts) > CacheTTL

refresh_cache(R) ==
    [R EXCEPT !.c = [agents |-> R.db.agents, channels |-> R.db.channels,
                     mappings |-> R.db.mappings, ts |-> now]]

refresh_cache_if_needed(R) == IF NeedsRefresh(R.c.ts) THEN refresh_cache(R) ELSE R

(* Reads; each one refreshes the caches first *)

get_agent(R, a) ==
    LET R1 == refresh_cache_if_needed(R)
    IN  [r |-> R1, result |-> First(DictGet(R1.c.agents, a))]

get_channel(R, cid) ==
    LET R1 == refresh_cache_if_needed(R)
    IN  [r |-> R1, result |-> First(DictGet(R1.c.channels, cid))]

get_channel_by_phone(R, phone) ==
    LET R1 == refresh_cache_if_needed(R)
    IN  [r |-> R1,
         result |-> First(SelectSeq(R1.c.channels, LAMBDA ch : ch.phone_number = phone))]

list_channels(R, filterActive, is_active) ==
    LET R1 == refresh_cache_if_needed(R)
    IN  [r |-> R1,
         result |-> IF filterActive
                    THEN SelectSeq(R1.c.channels, LAMBDA ch : ch.is_active = is_active)
                    ELSE R1.c.channels]

get_mappings_by_agent(R, a) ==
    LET R1 == refresh_cache_if_needed(R)
    IN  [r |-> R1, result |-> SelectSeq(R1.c.mappings, LAMBDA m : m.agent_id = a)]

get_mappings_by_channel(R, cid) ==
    LET R1 == refresh_cache_if_needed(R)
    IN  [r |-> R1, result |-> SelectSeq(R1.c.mappings, LAMBDA m : m.channel_id = cid)]

(* Variant: the first active mapping, whatever its is_primary flag *)
FirstActive(active_mappings) == active_mappings[1]

(* next((m for m in active_mappings if m.get('is_primary')), active_mappings[0]) *)
PreferPrimary(active_mappings) ==
    LET primaries == SelectSeq(active_mappings, LAMBDA m : m.is_primary)
    IN  IF Len(primaries) > 0 THEN primaries[1] ELSE active_mappings[1]

get_agent_for_phone(R, phone) ==
    LET ch == get_channel_by_phone(R, phone)
    IN  IF ch.result = None THEN [r |-> ch.r, result |-> None]
        ELSE
        LET ms == get_mappings_by_channel(ch.r, ch.result[1].channel_id)
            active_mappings == SelectSeq(ms.result, LAMBDA m : m.is_active)
        IN  IF Len(ms.result) = 0 \/ Len(active_mappings) = 0
            THEN [r |-> ms.r, result |-> None]
            ELSE get_agent(ms.r, PreferPrimary(active_mappings).agent_id)

(* Writes.  create_item raises on an id the container already holds,       *)
(* read_item, replace_item and delete_item on an id it does not hold; any  *)
(* storage call may also raise on its own (fault).  Every write returns    *)
(* ok = FALSE instead of raising.                                          *)

(* Variant: the cache entry is made before the write to storage *)
AddAgentCacheFirst(R, a, fault) ==
    IF fault \/ DictHas(R.db.agents, a)
    THEN [r |-> [db |-> R.db, c |-> [R.c EXCEPT !.agents = DictPut(@, AgentDoc(a))]],
          ok |-> FALSE]
    ELSE [r |-> [db |-> [R.db EXCEPT !.agents = Append(@, AgentDoc(a))],
                 c  |-> [R.c EXCEPT !.agents = DictPut(@, AgentDoc(a))]],
          ok |-> TRUE]

add_agent(R, a, fault) ==
    IF fault \/ DictHas(R.db.agents, a)
    THEN [r |-> R, ok |-> FALSE]
    ELSE [r |-> [db |-> [R.db EXCEPT !.agents = Append(@, AgentDoc(a))],
                 c  |-> [R.c EXCEPT !.agents = DictPut(@, AgentDoc(a))]],
          ok |-> TRUE]

add_channel(R, doc, fault) ==
    IF fault \/ DictHas(R.db.channels, doc.id)
    THEN [r |-> R, ok |-> FALSE]
    ELSE [r |-> [db |-> [R.db EXCEPT !.channels = Append(@, doc)],
                 c  |-> [R.c EXCEPT !.channels = DictPut(@, doc)]],
          ok |-> TRUE]

(* updates: the phone_number and is_active keys of the update dict; the    *)
(* stored document is read, changed and replaced, then put in the cache.   *)
update_channel(R, cid, phone, active, fault) ==
    IF fault \/ ~DictHas(R.db.channels, cid)
    THEN [r |-> R, ok |-> FALSE]
    ELSE LET existing_channel == DictGet(R.db.channels, cid)[1]
             updated == [existing_channel EXCEPT !.phone_number = phone,
                                                 !.is_active = active]
         IN  [r |-> [db |-> [R.db EXCEPT !.channels = DictPut(@, updated)],
                     c  |-> [R.c EXCEPT !.channels = DictPut(@, updated)]],
              ok |-> TRUE]

(* Variant: the mapping is written to storage and not to the cache *)
AddMappingStorageOnly(R, doc, fault) ==
    IF fault \/ DictHas(R.db.mappings, doc.id)
    THEN [r |-> R, ok |-> FALSE]
    ELSE [r |-> [db |-> [R.db EXCEPT !.mappings = Append(@, doc)], c |-> R.c],
          ok |-> TRUE]

add_mapping(R, doc, fault) ==
    IF fault \/ DictHas(R.db.mappings, doc.id)
    THEN [r |-> R, ok |-> FALSE]
    ELSE [r |-> [db |-> [R.db EXCEPT !.mappings = Append(@, doc)],
                 c  |-> [R.c EXCEPT !.mappings = DictPut(@, doc)]],
          ok |-> TRUE]

remove_mapping(R, m, fault) ==
    IF fault \/ ~DictHas(R.db.mappings, m)
    THEN [r |-> R, ok |-> FALSE]
    ELSE [r |-> [db |-> [R.db EXCEPT !.mappings = DictDel(@, m)],
                 c  |-> [R.c EXCEPT !.mappings = DictDel(@, m)]],
          ok |-> TRUE]

(* for mapping in mappings: self.remove_mapping(mapping['mapping_id'])     *)
(* The value remove_mapping returns is not looked at.                      *)
RECURSIVE RemoveMappings(_, _, _)
RemoveMappings(R, mappings, failing) ==
    IF Len(mappings) = 0 THEN R
    ELSE RemoveMappings(remove_mapping(R, mappings[1].mapping_id,
                                        mappings[1].mapping_id \in failing).r,
                        Tail(mappings), failing)

remove_agent(R, a, failing, fault) ==
    LET ms == get_mappings_by_agent(R, a)
        R1 == RemoveMappings(ms.r, ms.result, failing)
    IN  IF fault \/ ~DictHas(R1.db.agents, a)
        THEN [r |-> R1, ok |-> FALSE]
        ELSE [r |-> [db |-> [R1.db EXCEPT !.agents = DictDel(@, a)],
                     c  |-> [R1.c EXCEPT !.agents = DictDel(@, a)]],
              ok |-> TRUE]

remove_channel(R, cid, failing, fault) ==
    LET ms == get_mappings_by_channel(R, cid)
        R1 == RemoveMappings(ms.r, ms.result, failing)
    IN  IF fault \/ ~DictHas(R1.db.channels, cid)
        THEN [r |-> R1, ok |-> FALSE]
        ELSE [r |-> [db |-> [R1.db EXCEPT !.channels = DictDel(@, cid)],
                     c  |-> [R1.c EXCEPT !.channels = DictDel(@, cid)]],
              ok |-> TRUE]

----------------------------------------------------------------------------
(* Config UI handlers (routers/config_ui.py).  ok = TRUE is the redirect   *)
(* that ends a successful request, ok = FALSE an HTTPException.            *)

ui_add_channel(R, cid, phone, type, fault) ==
    IF ~phone.plus THEN [r |-> R, ok |-> FALSE]
    ELSE
    LET byId == get_channel(R, cid)
    IN  IF byId.result # None THEN [r |-> byId.r, ok |-> FALSE]
        ELSE
        LET existing_channel == get_channel_by_phone(byId.r, phone)
        IN  IF existing_channel.result # None
            THEN [r |-> existing_channel.r, ok |-> FALSE]
            ELSE add_channel(existing_channel.r, ChannelDoc(cid, phone, type, TRUE), fault)

(* for mapping in existing_mappings: if mapping.get('is_primary'):          *)
(*     manager.mappings_container.replace_item(item=..., body={**mapping,   *)
(*                                             'is_primary': False})        *)
(* The replacement is written to storage only; a replace_item that raises   *)
(* ends the request, what was replaced before it stays replaced.            *)
RECURSIVE DemotePrimaries(_, _, _)
DemotePrimaries(storage, existing_mappings, failing) ==
    IF Len(existing_mappings) = 0 THEN [db |-> storage, ok |-> TRUE]
    ELSE LET mapping == existing_mappings[1]
         IN  IF ~mapping.is_primary
             THEN DemotePrimaries(storage, Tail(existing_mappings), failing)
             ELSE IF mapping.mapping_id \in failing
                     \/ ~DictHas(storage.mappings, mapping.mapping_id)
             THEN [db |-> storage, ok |-> FALSE]
             ELSE DemotePrimaries(
                      [storage EXCEPT !.mappings =
                           DictPut(@, [mapping EXCEPT !.is_primary = FALSE])],
                      Tail(existing_mappings), failing)

ui_add_mapping(R, a, cid, is_primary, mapping_id, failing, fault) ==
    LET ag == get_agent(R, a)
    IN  IF ag.result = None THEN [r |-> ag.r, ok |-> FALSE]
        ELSE
        LET ch == get_channel(ag.r, cid)
        IN  IF ch.result = None THEN [r |-> ch.r, ok |-> FALSE]
            ELSE
            LET existing_mappings == get_mappings_by_channel(ch.r, cid)
                agent_mappings == SelectSeq(existing_mappings.result,
                                            LAMBDA m : m.agent_id = a)
            IN  IF Len(agent_mappings) > 0
                THEN [r |-> existing_mappings.r, ok |-> FALSE]
                ELSE
                LET demoted == IF is_primary
                               THEN DemotePrimaries(existing_mappings.r.db,
                                                    existing_mappings.result, failing)
                               ELSE [db |-> existing_mappings.r.db, ok |-> TRUE]
                    R1 == [existing_mappings.r EXCEPT !.db = demoted.db]
                IN  IF ~demoted.ok THEN [r |-> R1, ok |-> FALSE]
                    ELSE add_mapping(R1, MappingDoc(mapping_id, a, cid, is_primary, TRUE),
                                     fault)

----------------------------------------------------------------------------
(* State machine of the registry *)

Reg(i) == [db |-> db, c |-> cache[i]]

Age(i) == IF cache[i].ts = NoTime THEN NoTime ELSE now - cache[i].ts

Commit(i, out) ==
    /\ db' = out.r.db
    /\ cache' = [cache EXCEPT ![i] = out.r.c]

Write(i, op, arg, out) ==
    /\ writes < MaxWrites
    /\ writes' = writes + 1
    /\ Commit(i, out)
    /\ ret' = [op |-> op, inst |-> i, arg |-> arg, ok |-> out.ok]
    /\ UNCHANGED <<now, ticks>>
    /\ UNCHANGED routerVars
    /\ UNCHANGED queueVars /\ UNCHANGED <<loopVars, environ>>

Read(i, op, arg, out) ==
    /\ Commit(i, out)
    /\ ret' = [op |-> op, inst |-> i, arg |-> arg, age |-> Age(i), result |-> out.result]
    /\ UNCHANGED <<now, ticks, writes>>
    /\ UNCHANGED routerVars
    /\ UNCHANGED queueVars /\ UNCHANGED <<loopVars, environ>>

(* Storage outlives the processes: an instance is constructed with empty    *)
(* caches over a registry that was configured before.                      *)
ScenarioConfig ==
    [agents |-> <<AgentDoc("asst_A1"), AgentDoc("asst_A2")>>,
     channels |-> <<ChannelDoc("c1", P1, "whatsapp", TRUE)>>,
     mappings |-> <<MappingDoc("m1", "asst_A1", "c1", TRUE, TRUE)>>]

Idle == [pc |-> "idle"]

(* the broker can be reached and no task has been created *)
NoLoop ==
    /\ tasks = <<>>
    /\ task = None
    /\ caller = "idle"
    /\ broker = "up"
    /\ outages = 0

(* os.environ when the process starts: the settings of the deployment, and  *)
(* no identity of a request                                                *)
Deployed == [name \in {"AGENT_ID"} |-> "asst_A1"]

(* the state after construction, over given configuration and conversation *)
(* documents                                                               *)
InitStored(config, documents) ==
    /\ db = config
    /\ cache = [i \in Instances |-> EmptyCache]
    /\ now = 0
    /\ ret = [op |-> "init"]
    /\ writes = 0
    /\ ticks = 0
    /\ routing = [i \in Instances |-> [routes |-> <<>>, ts |-> NoTime]]
    /\ store = documents
    /\ inv = [i \in Instances |-> Idle]
    /\ calls = 0
    /\ outbox = <<>>
    /\ environ = Deployed

InitData(config) == InitStored(config, <<>>)

(* the processor has been started; its receive-loop task is followed in    *)
(* the specification of the processor's life cycle only                    *)
InitWith(config) ==
    /\ InitData(config)
    /\ running = TRUE
    /\ NoLoop

InitRegistry == InitWith(ScenarioConfig) /\ queue = <<>>

Local == {1}

AddAgent(i, a) ==
    \E fault \in BOOLEAN :
        Write(i, "add_agent", a, add_agent(Reg(i), a, fault))

RemoveAgent(i, a) ==
    \E failing \in SUBSET DictKeys(get_mappings_by_agent(Reg(i), a).result),
       fault \in BOOLEAN :
        Write(i, "remove_agent", a, remove_agent(Reg(i), a, failing, fault))

AddChannel(i, cid, phone) ==
    \E fault \in BOOLEAN :
        Write(i, "add_channel", cid,
              add_channel(Reg(i), ChannelDoc(cid, phone, "whatsapp", TRUE), fault))

UiAddChannel(i, cid, phone) ==
    \E fault \in BOOLEAN :
        Write(i, "ui_add_channel", cid,
              ui_add_channel(Reg(i), cid, phone, "whatsapp", fault))

UpdateChannel(i, cid, phone, active) ==
    \E fault \in BOOLEAN :
        Write(i, "update_channel", cid, update_channel(Reg(i), cid, phone, active, fault))

RemoveChannel(i, cid) ==
    \E failing \in SUBSET DictKeys(get_mappings_by_channel(Reg(i), cid).result),
       fault \in BOOLEAN :
        Write(i, "remove_channel", cid, remove_channel(Reg(i), cid, failing, fault))

AddMapping(i, m, a, cid, primary, active) ==
    \E fault \in BOOLEAN :
        Write(i, "add_mapping", m,
              add_mapping(Reg(i), MappingDoc(m, a, cid, primary, active), fault))

UiAddMapping(i, a, cid, is_primary) ==
    \E mapping_id \in MappingIds,
       failing \in SUBSET DictKeys(get_mappings_by_channel(Reg(i), cid).result),
       fault \in BOOLEAN :
        Write(i, "ui_add_mapping", cid,
              ui_add_mapping(Reg(i), a, cid, is_primary, mapping_id, failing, fault))

RemoveMapping(i, m) ==
    \E fault \in BOOLEAN :
        Write(i, "remove_mapping", m, remove_mapping(Reg(i), m, fault))

(* The same operations run by another service instance, one whose caches   *)
(* are expired when it runs them: only the shared storage changes here.    *)
PeerReg == [db |-> db, c |-> EmptyCache]

PeerWrite(op, arg, out) ==
    /\ writes < MaxWrites
    /\ writes' = writes + 1
    /\ db' = out.r.db
    /\ ret' = [op |-> op, inst |-> 0, arg |-> arg, ok |-> out.ok]
    /\ UNCHANGED <<cache, now, ticks>>
    /\ UNCHANGED routerVars
    /\ UNCHANGED queueVars /\ UNCHANGED <<loopVars, environ>>

PeerUiAddMapping(a, cid, is_primary) ==
    \E mapping_id \in MappingIds :
        PeerWrite("peer_ui_add_mapping", cid,
                  ui_add_mapping(PeerReg, a, cid, is_primary, mapping_id, {}, FALSE))

PeerRemoveMapping(m) ==
    PeerWrite("peer_remove_mapping", m, remove_mapping(PeerReg, m, FALSE))

GetAgentForPhone(i, phone) ==
    Read(i, "get_agent_for_phone", phone, get_agent_for_phone(Reg(i), phone))

ListChannels(i) ==
    Read(i, "list_channels", None, list_channels(Reg(i), FALSE, TRUE))

GetAgent(i, a) ==
    Read(i, "get_agent", a, get_agent(Reg(i), a))

Advance(d, max) ==
    /\ ticks < max
    /\ ticks' = ticks + 1
    /\ now' = now + d
    /\ ret' = [op |-> "tick"]
    /\ UNCHANGED <<db, cache, writes>>
    /\ UNCHANGED routerVars
    /\ UNCHANGED queueVars /\ UNCHANGED <<loopVars, environ>>

Tick(d) == Advance(d, MaxTicks)

NextRegistry ==
    \/ \E i \in Local, a \in AgentIds : AddAgent(i, a)
    \/ \E i \in Local, a \in AgentIds : RemoveAgent(i, a)
    \/ \E i \in Local, cid \in ChannelIds, phone \in Phones : AddChannel(i, cid, phone)
    \/ \E i \in Local, cid \in ChannelIds, phone \in Phones : UiAddChannel(i, cid, phone)
    \/ \E i \in Local, cid \in ChannelIds, phone \in Phones, active \in BOOLEAN :
           UpdateChannel(i, cid, phone, active)
    \/ \E i \in Local, cid \in ChannelIds : RemoveChannel(i, cid)
    \/ \E i \in Local, m \in MappingIds, a \in AgentIds, cid \in ChannelIds,
          primary \in BOOLEAN, active \in BOOLEAN :
           AddMapping(i, m, a, cid, primary, active)
    \/ \E i \in Local, a \in AgentIds, cid \in ChannelIds, is_primary \in BOOLEAN :
           UiAddMapping(i, a, cid, is_primary)
    \/ \E i \in Local, m \in MappingIds : RemoveMapping(i, m)
    \/ \E a \in AgentIds, cid \in ChannelIds, is_primary \in BOOLEAN :
           PeerUiAddMapping(a, cid, is_primary)
    \/ \E m \in MappingIds : PeerRemoveMapping(m)
    \/ \E i \in Local, phone \in Phones : GetAgentForPhone(i, phone)
    \/ \E i \in Local : ListChannels(i)
    \/ \E i \in Local, a \in AgentIds : GetAgent(i, a)
    \/ \E d \in TickSteps : Tick(d)

SpecRegistry == InitRegistry /\ [][NextRegistry]_vars

----------------------------------------------------------------------------
(* The formats of the documents: AgentConfig and ChannelConfig check their *)
(* fields when they are built, before add_agent and add_channel are called *)
(* with them; update_agent and update_channel take a dict of new values.   *)

RawAgentIds == AgentIds \cup {"agent_X"}
RawPhones == Phones \cup {Str(FALSE, "15550001")}
RawTypes == {"whatsapp", "SMS", "telegram"}

(* v.startswith('asst_') *)
validate_agent_id(v) == v \in {"asst_A1", "asst_A2"}

(* v.startswith('+') *)
validate_phone_number(v) == v.plus

(* v.lower() *)
lower(v) == IF v = "SMS" THEN "sms" ELSE v

(* v.lower() in ['whatsapp', 'sms'] *)
validate_channel_type(v) == lower(v) \in {"whatsapp", "sms"}

(* update_agent: every key of updates but agent_id is written over *)
update_agent(R, a, new_agent_id, fault) ==
    IF fault \/ ~DictHas(R.db.agents, a)
    THEN [r |-> R, ok |-> FALSE]
    ELSE [r |-> [db |-> [R.db EXCEPT !.agents = DictPut(@, DictGet(R.db.agents, a)[1])],
                 c  |-> [R.c EXCEPT !.agents = DictPut(@, DictGet(R.db.agents, a)[1])]],
          ok |-> TRUE]

(* the constructor raised ValueError: nothing was added *)
Rejected(i, op, arg) ==
    /\ ret' = [op |-> op, inst |-> i, arg |-> arg, ok |-> FALSE]
    /\ UNCHANGED <<db, cache, now, writes, ticks>>
    /\ UNCHANGED routerVars
    /\ UNCHANGED queueVars /\ UNCHANGED <<loopVars, environ>>

NewAgent(i, a) ==
    IF validate_agent_id(a) THEN AddAgent(i, a) ELSE Rejected(i, "AgentConfig", a)

NewChannel(i, cid, phone, type) ==
    IF validate_phone_number(phone) /\ validate_channel_type(type)
    THEN \E fault \in BOOLEAN :
             Write(i, "add_channel", cid,
                   add_channel(Reg(i), ChannelDoc(cid, phone, lower(type), TRUE), fault))
    ELSE Rejected(i, "ChannelConfig", cid)

UpdateAgent(i, a, new_agent_id) ==
    \E fault \in BOOLEAN :
        Write(i, "update_agent", a, update_agent(Reg(i), a, new_agent_id, fault))

FormatsConfig ==
    [agents |-> <<AgentDoc("asst_A1")>>,
     channels |-> <<ChannelDoc("c1", P1, "whatsapp", TRUE)>>,
     mappings |-> <<>>]

InitFormats == InitWith(FormatsConfig) /\ queue = <<>>

NextFormats ==
    \/ \E i \in Local, a \in RawAgentIds : NewAgent(i, a)
    \/ \E i \in Local, cid \in ChannelIds, phone \in RawPhones, type \in RawTypes :
           NewChannel(i, cid, phone, type)
    \/ \E i \in Local, a \in AgentIds, new_agent_id \in RawAgentIds :
           UpdateAgent(i, a, new_agent_id)
    \/ \E i \in Local, cid \in ChannelIds, phone \in RawPhones, active \in BOOLEAN :
           UpdateChannel(i, cid, phone, active)
    \/ \E i \in Local : ListChannels(i)

SpecFormats == InitFormats /\ [][NextFormats]_vars

----------------------------------------------------------------------------
(* MultiContainerConversationStore.  A document is keyed by its container  *)
(* and its conversation id.                                                *)

(* The characters of the channel ids, which are 36-character UUIDs or free *)
(* names: "c1" stands for a UUID, "c2" for a name that is not one.         *)
UuidBodies == {"c1"}

(* the number as it was written, '+' included *)
RawPhone(phone) == <<phone.plus, phone.body>>

(* re.sub(r'[^0-9]', '', phone_number) *)
sanitize_phone_number(phone) ==
    IF phone.body \in UuidBodies THEN "4217" ELSE phone.body

(* the one container of the layout before the per-number containers *)
SingleContainer(phone) == <<"conversations", "">>

get_container_name(phone) == <<"conversations", sanitize_phone_number(phone)>>

DocId(phone, conversation_id) == <<get_container_name(phone), conversation_id>>

(* container.read_item: None when the document is not there *)
get_conversation(documents, phone, conversation_id) ==
    First(DictGet(documents, DocId(phone, conversation_id)))

(* d.get(key, default): the default only when the key is absent *)
Get(d, key, default) == IF key \in DOMAIN d THEN d[key] ELSE default

(* "metadata": created_at is conversation.get("created_at", utcnow()),     *)
(* updated_at is utcnow(); NoTime stands for a value of None               *)
Metadata(conversation) ==
    [created_at |-> Get(conversation, "created_at", now), updated_at |-> now]

(* container.upsert_item(conversation_doc): the whole document is replaced *)
save_conversation(documents, phone, conversation_id, conversation) ==
    DictPut(documents,
            [id |-> DocId(phone, conversation_id),
             conversation_id |-> conversation_id,
             phone_number |-> phone,
             messages |-> conversation.messages,
             metadata |-> Metadata(conversation)])

(* container.delete_item: the document of that id in that container goes;  *)
(* False when it is not there or the call fails, and nothing changes       *)
delete_conversation(documents, phone, conversation_id, fault) ==
    IF fault \/ ~DictHas(documents, DocId(phone, conversation_id))
    THEN [store |-> documents, result |-> FALSE]
    ELSE [store |-> DictDel(documents, DocId(phone, conversation_id)),
          result |-> TRUE]

(* The store by itself: callers save, read and delete conversations under  *)
(* business numbers written with and without the leading '+'.              *)
StorePhones == {P1, Str(FALSE, "15550001"), P2}
StoreIds == {"whatsapp:15550002", "sms:15550002"}
StoreMessages == {<<"hello">>, <<"hello", "bye">>}

(* raised: the call ended with an exception; found: what get_conversation *)
(* returned; deleted: what delete_conversation returned                    *)
StoreRet(op, phone, conversation_id, messages, raised, found, deleted) ==
    ret' = [op |-> op, phone |-> phone, conversation_id |-> conversation_id,
            messages |-> messages, raised |-> raised, found |-> found,
            deleted |-> deleted]

StoreOnly == UNCHANGED <<db, cache, now, writes, ticks, routing, inv, calls>>
             /\ UNCHANGED queueVars /\ UNCHANGED <<loopVars, environ>>

SaveConversation(phone, conversation_id, messages, fault) ==
    /\ store' = IF fault THEN store
                ELSE save_conversation(store, phone, conversation_id,
                                       [messages |-> messages])
    /\ StoreRet("save_conversation", phone, conversation_id, messages,
                fault, None, FALSE)
    /\ StoreOnly

GetConversation(phone, conversation_id, fault) ==
    /\ StoreRet("get_conversation", phone, conversation_id, <<>>, fault,
                IF fault THEN None
                ELSE get_conversation(store, phone, conversation_id),
                FALSE)
    /\ UNCHANGED store
    /\ StoreOnly

Deleted(phone, conversation_id, out) ==
    /\ store' = out.store
    /\ StoreRet("delete_conversation", phone, conversation_id, <<>>, FALSE,
                None, out.result)

DeleteConversation(phone, conversation_id, fault) ==
    /\ Deleted(phone, conversation_id,
               delete_conversation(store, phone, conversation_id, fault))
    /\ StoreOnly

NextStore ==
    \/ \E phone \in StorePhones, id \in StoreIds, messages \in StoreMessages,
          fault \in BOOLEAN :
            SaveConversation(phone, id, messages, fault)
    \/ \E phone \in StorePhones, id \in StoreIds, fault \in BOOLEAN :
            GetConversation(phone, id, fault)
    \/ \E phone \in StorePhones, id \in StoreIds, fault \in BOOLEAN :
            DeleteConversation(phone, id, fault)

SpecStore == InitRegistry /\ [][NextStore]_vars

----------------------------------------------------------------------------
(* The migration out of the container of the layout before the per-number  *)
(* containers: ConversationContainerManager.migrate_old_conversations and  *)
(* MultiContainerConversationStore.migrate_from_single_container.          *)

(* old_container_name = "conversations": no name "conversations_<digits>"  *)
(* of a per-number container equals it                                     *)
OldContainer == <<"conversations">>

(* A document of the old container.  metadata, routing_info and message    *)
(* hold the phone_number / to_phone value found there, None when the key   *)
(* is absent.                                                              *)
OldDoc(conv_id, metadata, routing_info, message, messages) ==
    [id |-> <<OldContainer, conv_id>>, conversation_id |-> conv_id,
     metadata |-> metadata, routing_info |-> routing_info, message |-> message,
     messages |-> messages]

(* the parts of a conversation id that read as a phone number: 11 digits   *)
(* after a leading 1 for the manager, ten or more for the store, which so  *)
(* takes a timestamp for one as well                                       *)
Numbers == {"15550001", "15550002", "15550009"}
Timestamps == {"1700000000"}

LooksLikeNumber(part, tool) ==
    \/ part \in Numbers
    \/ tool = "store" /\ part \in Timestamps

(* conv_id.split('_'), and the '+' put before the first part that matches *)
PhoneInId(parts, tool) ==
    IF Len(parts) >= 2
    THEN First([n \in 1..Len(SelectSeq(parts, LAMBDA part : LooksLikeNumber(part, tool)))
                  |-> Str(TRUE, SelectSeq(parts, LAMBDA part : LooksLikeNumber(part, tool))[n])])
    ELSE None

extract_phone_from_conversation(conversation, tool) ==
    IF conversation.metadata # None THEN conversation.metadata
    ELSE IF tool = "manager" /\ conversation.routing_info # None
         THEN conversation.routing_info
    ELSE IF tool = "manager" /\ conversation.message # None
         THEN conversation.message
    ELSE PhoneInId(conversation.conversation_id, tool)

(* a migration that takes the document out of the old container once it    *)
(* is saved                                                                *)
MoveConversation(documents, conversation, phone) ==
    DictDel(save_conversation(documents, phone, conversation.conversation_id,
                              conversation),
            conversation.id)

(* self.conversation_store.save_conversation(phone_number, conv_id,        *)
(* conversation)                                                           *)
migrate_conversation(documents, conversation, phone) ==
    save_conversation(documents, phone, conversation.conversation_id, conversation)

MigrationAction(conversation, phone) ==
    [conversation_id |-> conversation.conversation_id,
     to_container |-> get_container_name(phone)]

(* One conversation of the loop.  The action is planned before the save;   *)
(* a save that raises adds an error and the loop goes on.                  *)
MigrateOne(out, conversation, phone, dry_run, fault) ==
    IF phone = None
    THEN [out EXCEPT !.errors = Append(@, conversation.conversation_id)]
    ELSE IF dry_run
    THEN [out EXCEPT !.actions = Append(@, MigrationAction(conversation, phone[1]))]
    ELSE IF fault
    THEN [out EXCEPT !.actions = Append(@, MigrationAction(conversation, phone[1])),
                     !.errors = Append(@, conversation.conversation_id)]
    ELSE [out EXCEPT !.actions = Append(@, MigrationAction(conversation, phone[1])),
                     !.migrated = @ + 1,
                     !.store = migrate_conversation(@, conversation, phone[1])]

(* the loop over all_conversations[k..last] *)
RECURSIVE MigrateEach(_, _, _, _, _, _, _)
MigrateEach(out, conversations, k, last, tool, dry_run, faults) ==
    IF k > last THEN out
    ELSE MigrateEach(MigrateOne(out, conversations[k],
                                extract_phone_from_conversation(conversations[k], tool),
                                dry_run, k \in faults),
                     conversations, k + 1, last, tool, dry_run, faults)

(* old_container.query_items("SELECT * FROM c") *)
Conversations(documents) == SelectSeq(documents, LAMBDA doc : doc.id[1] = OldContainer)

Plan(documents) == [store |-> documents, actions |-> <<>>, errors |-> <<>>, migrated |-> 0]

(* handled: the conversations the loop went through; fewer than were read  *)
(* when the process was interrupted in the loop                            *)
migrate(documents, tool, dry_run, faults, handled) ==
    MigrateEach(Plan(documents), Conversations(documents), 1, handled, tool, dry_run, faults)

migrate_old_conversations(documents, dry_run, faults, handled) ==
    migrate(documents, "manager", dry_run, faults, handled)

migrate_from_single_container(documents, faults, handled) ==
    migrate(documents, "store", FALSE, faults, handled)

(* outcome: "returned", "query failed" (the read of the old container      *)
(* raised: the manager returns an error, the store raises) or              *)
(* "interrupted"                                                           *)
Migrated(op, dry_run, outcome, out) ==
    /\ store' = out.store
    /\ ret' = [op |-> op, dry_run |-> dry_run, outcome |-> outcome,
               actions |-> out.actions, errors |-> out.errors,
               migrated |-> out.migrated]
    /\ StoreOnly

Outcome(documents, queryFault, handled) ==
    IF queryFault THEN "query failed"
    ELSE IF handled < Len(Conversations(documents)) THEN "interrupted"
    ELSE "returned"

MigrateOldConversations(dry_run, queryFault, faults, handled) ==
    /\ handled <= Len(Conversations(store))
    /\ Migrated("migrate_old_conversations", dry_run,
                Outcome(store, queryFault, handled),
                IF queryFault THEN Plan(store)
                ELSE migrate_old_conversations(store, dry_run, faults, handled))

MigrateFromSingleContainer(queryFault, faults, handled) ==
    /\ handled <= Len(Conversations(store))
    /\ Migrated("migrate_from_single_container", FALSE,
                Outcome(store, queryFault, handled),
                IF queryFault THEN Plan(store)
                ELSE migrate_from_single_container(store, faults, handled))

(* the old container holds up to MaxOldDocs conversations at the upgrade *)
MaxOldDocs == 2

OldDocs ==
    {OldDoc(<<"whatsapp", "15550002">>, <<P1>>, None, None, <<"hello">>),
     OldDoc(<<"whatsapp", "15550002">>, None, None, None, <<"hello", "bye">>),
     OldDoc(<<"sms", "15550002">>, None, <<P2>>, None, <<"hello">>),
     OldDoc(<<"sms", "15550002">>, None, None, <<Str(FALSE, "15550001")>>, <<"bye">>),
     OldDoc(<<"c1", "1700000000">>, None, None, None, <<"hello">>),
     OldDoc(<<"c1">>, None, None, None, <<"hello">>)}

OldContainers ==
    {<<a>> : a \in OldDocs}
    \cup {pair \in OldDocs \X OldDocs : pair[1].id # pair[2].id}

InitMigration ==
    /\ \E documents \in OldContainers : InitStored(ScenarioConfig, documents)
    /\ running = TRUE
    /\ NoLoop
    /\ queue = <<>>

NextMigration ==
    \/ \E dry_run, queryFault \in BOOLEAN, faults \in SUBSET (1..MaxOldDocs), handled \in 0..MaxOldDocs :
           MigrateOldConversations(dry_run, queryFault, faults, handled)
    \/ \E queryFault \in BOOLEAN, faults \in SUBSET (1..MaxOldDocs), handled \in 0..MaxOldDocs :
           MigrateFromSingleContainer(queryFault, faults, handled)
    \/ \E phone \in StorePhones, id \in StoreIds, fault \in BOOLEAN :
           DeleteConversation(phone, id, fault)

SpecMigration == InitMigration /\ [][NextMigration]_vars

----------------------------------------------------------------------------
(* MultiAgentRouter, as functions of X = [r, routes, ts]: r the registry   *)
(* state R of the instance, routes and ts its routing cache.               *)

Customers == {Str(TRUE, "15550002"), Str(TRUE, "15550003")}
Texts == {"hello", "bye"}
ConversationIds == {<<"whatsapp", "15550002">>, <<"sms", "15550002">>}
ToPhones == {P1, Str(FALSE, "15550001"), P2, Str(FALSE, "c1")}

Apology == "I apologize, but I'm experiencing technical difficulties."
Trouble == "I'm having trouble right now"
(* what the agent service does with a run: it answers, the run fails, a   *)
(* call of the client raises                                               *)
AgentOutcomes == {"reply", "run_failed", "raised"}

(* the parameters ask_foundry declares, and the keywords it is called with *)
AskFoundryParams == {"user_text", "conversation_id", "agent_id", "foundry_endpoint"}
CallKeywords == {"user_text", "conversation_id", "agent_id", "foundry_endpoint",
                 "conversation_history"}

(* the reply R of the agent to a text *)
ReplyTo(user_text) ==
    CASE user_text = "hello" -> "reply to hello"
      [] user_text = "bye" -> "reply to bye"
      [] OTHER -> "reply"

ask_foundry(user_text, outcome) ==
    IF outcome = "reply" THEN ReplyTo(user_text) ELSE Trouble

(* a call that hands on whatever the service gave, failed or not *)
AnswerAnyway(message_content, outcome) == ReplyTo(message_content)

(* A call with a keyword the function does not declare raises TypeError,   *)
(* which is caught here like every other exception of the call.            *)
call_foundry_agent(message_content, outcome) ==
    IF CallKeywords \subseteq AskFoundryParams
    THEN ask_foundry(message_content, outcome)
    ELSE Apology

RECURSIVE BuildRoutes(_, _, _)
BuildRoutes(R, channels, routes) ==
    IF Len(channels) = 0 THEN [r |-> R, routes |-> routes]
    ELSE LET channel == channels[1]
             agent == get_agent_for_phone(R, channel.phone_number)
         IN  BuildRoutes(agent.r, Tail(channels),
                 IF agent.result # None
                 THEN DictPut(routes, [id |-> channel.phone_number,
                                       agent |-> agent.result[1],
                                       channel |-> channel])
                 ELSE routes)

refresh_routing_cache(X) ==
    IF X.ts = NoTime \/ TimedeltaSeconds(now - X.ts) > RoutingTTL
    THEN LET channels == list_channels(X.r, TRUE, TRUE)
             built == BuildRoutes(channels.r, channels.result, <<>>)
         IN  [r |-> built.r, routes |-> built.routes, ts |-> now]
    ELSE X

(* len(to_phone) == 36 and '-' in to_phone *)
IsChannelIdFormat(to_phone) == ~to_phone.plus /\ to_phone.body \in UuidBodies

(* the loop over list_channels(is_active=True) that stops at the channel   *)
(* whose id is to_phone                                                    *)
RouteByChannelId(R, to_phone) ==
    LET channels == list_channels(R, TRUE, TRUE)
        hits == SelectSeq(channels.result, LAMBDA ch : ch.channel_id = to_phone.body)
    IN  IF Len(hits) = 0 THEN [r |-> channels.r, route |-> None]
        ELSE LET agent == get_agent_for_phone(channels.r, hits[1].phone_number)
             IN  [r |-> agent.r,
                  route |-> IF agent.result = None THEN None
                            ELSE <<[id |-> hits[1].phone_number,
                                    agent |-> agent.result[1],
                                    channel |-> hits[1]]>>]

(* if not to_phone.startswith('+'): to_phone = '+' + to_phone *)
Normalize(to_phone) == IF to_phone.plus THEN to_phone ELSE [to_phone EXCEPT !.plus = TRUE]

(* the routing metadata built from a route; None without a route *)
RoutingInfo(route, to_phone, from_phone) ==
    IF route = None THEN None
    ELSE <<[agent_id |-> route[1].agent.agent_id,
            channel_id |-> route[1].channel.channel_id,
            channel_type |-> route[1].channel.channel_type,
            business_phone |-> to_phone,
            customer_phone |-> from_phone]>>

(* the branch of a to_phone in channel-id format: to_phone stays as given *)
LookupByChannelId(X1, byId, from_phone, to_phone) ==
    [x |-> [X1 EXCEPT !.r = byId.r],
     result |-> RoutingInfo(byId.route, to_phone, from_phone)]

(* Variant: a number without a route falls back to the first route of the cache *)
LookupWithDefault(X1, from_phone, to_phone) ==
    [x |-> X1,
     result |-> RoutingInfo(IF DictHas(X1.routes, to_phone)
                            THEN First(DictGet(X1.routes, to_phone))
                            ELSE First(X1.routes),
                            to_phone, from_phone)]

(* the other branch: self._routing_cache.get(to_phone) on the normalised number *)
LookupByPhone(X1, from_phone, to_phone) ==
    [x |-> X1,
     result |-> RoutingInfo(First(DictGet(X1.routes, to_phone)), to_phone, from_phone)]

LookupRoute(X1, from_phone, to_phone) ==
    IF IsChannelIdFormat(to_phone)
    THEN LookupByChannelId(X1, RouteByChannelId(X1.r, to_phone), from_phone, to_phone)
    ELSE LookupByPhone(X1, from_phone, Normalize(to_phone))

get_agent_for_message(X, from_phone, to_phone) ==
    LookupRoute(refresh_routing_cache(X), from_phone, to_phone)

Failure(error, routing_info) ==
    [success |-> FALSE, error |-> error, routing_info |-> routing_info,
     response |-> None]

(* if not conversation_id:                                                  *)
(*     f"{channel_id}_{from_phone.replace('+', '')}_{int(utcnow().timestamp())}" *)
(* the clock of the model counts whole seconds                             *)
WithConversationId(call, routing_info) ==
    IF call.conversation_id = None
    THEN [call EXCEPT !.conversation_id =
                          <<routing_info.channel_id, call.from_phone.body, now>>]
    ELSE call

(* the call, with the conversation of its id as the store holds it *)
Loaded(x, call, routing_info, documents) ==
    [x |-> x,
     inv |-> [pc |-> "loaded", call |-> call, loaded |-> TRUE,
              routing_info |-> routing_info,
              existing_conversation |->
                  get_conversation(documents, call.to_phone, call.conversation_id)]]

(* process_message after the route is resolved, up to the call of the      *)
(* agent: load the conversation under to_phone as it was passed in.        *)
(* fault: get_conversation raises.                                         *)
LoadConversation(routing_info, documents, call, fault) ==
    IF routing_info.result = None
    THEN [x |-> routing_info.x,
          inv |-> [pc |-> "done", call |-> call, loaded |-> FALSE, agent_calls |-> 0,
                   result |-> Failure("no agent configured", None)]]
    ELSE IF fault
    THEN [x |-> routing_info.x,
          inv |-> [pc |-> "done", call |-> call, loaded |-> FALSE, agent_calls |-> 0,
                   result |-> Failure("exception", routing_info.result)]]
    ELSE Loaded(routing_info.x, WithConversationId(call, routing_info.result[1]),
                routing_info.result[1], documents)

(* process_message up to the call of the agent *)
process_message_load(X, documents, from_phone, to_phone, message_content, conversation_id, fault) ==
    LoadConversation(get_agent_for_message(X, from_phone, to_phone), documents,
                     [from_phone |-> from_phone, to_phone |-> to_phone,
                      message_content |-> message_content,
                      conversation_id |-> conversation_id],
                     fault)

(* Variant: the two new messages only, without the existing ones *)
NewMessagesOnly(v, agent_response) ==
    [messages |-> <<[role |-> "user", content |-> v.call.message_content,
                     from_phone |-> v.call.from_phone],
                    [role |-> "assistant", content |-> agent_response,
                     agent_id |-> v.routing_info.agent_id]>>]

(* "created_at": existing_conversation.get("created_at") if                *)
(* existing_conversation else utcnow(): the key at the top of the stored   *)
(* document, None when it has none                                         *)
created_at(existing_conversation) ==
    IF existing_conversation # None
    THEN Get(existing_conversation[1], "created_at", NoTime)
    ELSE now

(* "messages": existing_messages + [user message, assistant message] *)
conversation_data(v, agent_response) ==
    LET new == <<[role |-> "user", content |-> v.call.message_content,
                  from_phone |-> v.call.from_phone],
                 [role |-> "assistant", content |-> agent_response,
                  agent_id |-> v.routing_info.agent_id]>>
    IN  [messages |-> IF v.existing_conversation # None
                      THEN v.existing_conversation[1].messages \o new
                      ELSE new,
         created_at |-> created_at(v.existing_conversation)]

(* Variant: the two new messages are appended to the document as it is in *)
(* the store at the time of the save, not as it was loaded.                *)
SaveAppending(documents, v, outcome, fault) ==
    IF fault
    THEN [store |-> documents,
          inv |-> [pc |-> "done", call |-> v.call, loaded |-> TRUE, agent_calls |-> 1,
                   result |-> Failure("exception", <<v.routing_info>>)]]
    ELSE [store |-> save_conversation(
                        documents, v.call.to_phone, v.call.conversation_id,
                        [messages |->
                            (IF get_conversation(documents, v.call.to_phone,
                                                 v.call.conversation_id) = None
                             THEN <<>>
                             ELSE get_conversation(documents, v.call.to_phone,
                                                   v.call.conversation_id)[1].messages)
                            \o <<[role |-> "user", content |-> v.call.message_content,
                                  from_phone |-> v.call.from_phone],
                                 [role |-> "assistant", content |-> Apology,
                                  agent_id |-> v.routing_info.agent_id]>>]),
          inv |-> [pc |-> "done", call |-> v.call, loaded |-> TRUE, agent_calls |-> 1,
                   existing_conversation |-> v.existing_conversation,
                   result |-> [success |-> TRUE,
                               routing_info |-> <<v.routing_info>>,
                               response |-> <<Apology>>,
                               conversation_id |-> v.call.conversation_id]]]

(* Variant: the user message is saved before the agent is called, so a    *)
(* failure of the second save leaves it in the store.                      *)
SaveUserMessageFirst(documents, v, outcome, fault) ==
    [store |-> save_conversation(
                   documents, v.call.to_phone, v.call.conversation_id,
                   [messages |->
                       (IF v.existing_conversation = None THEN <<>>
                        ELSE v.existing_conversation[1].messages)
                       \o (IF fault
                           THEN <<[role |-> "user", content |-> v.call.message_content,
                                   from_phone |-> v.call.from_phone]>>
                           ELSE <<[role |-> "user", content |-> v.call.message_content,
                                   from_phone |-> v.call.from_phone],
                                  [role |-> "assistant", content |-> Apology,
                                   agent_id |-> v.routing_info.agent_id]>>)]),
     inv |-> [pc |-> "done", call |-> v.call, loaded |-> TRUE, agent_calls |-> 1,
              existing_conversation |-> v.existing_conversation,
              result |-> IF fault THEN Failure("exception", <<v.routing_info>>)
                         ELSE [success |-> TRUE,
                               routing_info |-> <<v.routing_info>>,
                               response |-> <<Apology>>,
                               conversation_id |-> v.call.conversation_id]]]

(* process_message from the call of the agent on.  fault: save raises.     *)
process_message_save(documents, v, outcome, fault) ==
    LET agent_response == call_foundry_agent(v.call.message_content, outcome)
    IN  IF fault
        THEN [store |-> documents,
              inv |-> [pc |-> "done", call |-> v.call, loaded |-> TRUE,
                       agent_calls |-> 1,
                       result |-> Failure("exception", <<v.routing_info>>)]]
        ELSE [store |-> save_conversation(documents, v.call.to_phone,
                                          v.call.conversation_id,
                                          conversation_data(v, agent_response)),
              inv |-> [pc |-> "done", call |-> v.call, loaded |-> TRUE,
                       agent_calls |-> 1,
                       existing_conversation |-> v.existing_conversation,
                       result |-> [success |-> TRUE,
                                   routing_info |-> <<v.routing_info>>,
                                   response |-> <<agent_response>>,
                                   conversation_id |-> v.call.conversation_id]]]

----------------------------------------------------------------------------
(* State machine of the router.  Within one instance process_message runs  *)
(* from its first to its last statement; the instances run side by side.   *)

Router(i) == [r |-> Reg(i), routes |-> routing[i].routes, ts |-> routing[i].ts]

ConfigSecondPrimary ==
    [agents |-> <<AgentDoc("asst_A1"), AgentDoc("asst_A2")>>,
     channels |-> <<ChannelDoc("c1", P1, "sms", TRUE)>>,
     mappings |-> <<MappingDoc("m1", "asst_A1", "c1", FALSE, TRUE),
                    MappingDoc("m2", "asst_A2", "c1", TRUE, TRUE)>>]

ConfigInactive ==
    [agents |-> <<AgentDoc("asst_A1"), AgentDoc("asst_A2")>>,
     channels |-> <<ChannelDoc("c1", P1, "whatsapp", FALSE)>>,
     mappings |-> <<MappingDoc("m1", "asst_A1", "c1", TRUE, TRUE)>>]

RouterConfigs == {ScenarioConfig, ConfigSecondPrimary, ConfigInactive}

InitRouter == \E config \in RouterConfigs : InitWith(config) /\ queue = <<>>

Started(i, out) ==
    /\ cache' = [cache EXCEPT ![i] = out.x.r.c]
    /\ routing' = [routing EXCEPT ![i] = [routes |-> out.x.routes, ts |-> out.x.ts]]
    /\ inv' = [inv EXCEPT ![i] = out.inv]

PMStart(i, from_phone, to_phone, message_content, conversation_id) ==
    /\ inv[i].pc # "loaded"
    /\ calls < MaxCalls
    /\ calls' = calls + 1
    /\ \E fault \in BOOLEAN :
         Started(i, process_message_load(Router(i), store, from_phone, to_phone,
                                         message_content, conversation_id, fault))
    /\ UNCHANGED <<db, now, ret, writes, ticks, store>>
    /\ UNCHANGED queueVars /\ UNCHANGED <<loopVars, environ>>

PMFinish(i) ==
    /\ inv[i].pc = "loaded"
    /\ \E outcome \in AgentOutcomes, fault \in BOOLEAN :
         LET out == process_message_save(store, inv[i], outcome, fault)
         IN  /\ store' = out.store
             /\ inv' = [inv EXCEPT ![i] = out.inv]
    /\ UNCHANGED <<db, cache, now, ret, writes, ticks, routing, calls>>
    /\ UNCHANGED queueVars /\ UNCHANGED <<loopVars, environ>>

Calling ==
    \E i \in Instances, from_phone \in Customers, to_phone \in ToPhones,
       message_content \in Texts, conversation_id \in ConversationIds :
        PMStart(i, from_phone, to_phone, message_content, conversation_id)

NextRouter ==
    \/ Calling
    \/ \E i \in Instances : PMFinish(i)

SpecRouter == InitRouter /\ [][NextRouter]_vars

(* The calls executed one after another: none starts while one is running. *)
NextSequential ==
    \/ (\A i \in Instances : inv[i].pc # "loaded") /\ Calling
    \/ \E i \in Instances : PMFinish(i)

SpecSequential == InitRouter /\ [][NextSequential]_vars

(* The calls of one instance, with what the agent service did in each *)
Finished(i, outcome, fault, out) ==
    /\ store' = out.store
    /\ inv' = [inv EXCEPT ![i] = out.inv]
    /\ ret' = [op |-> "process_message", inst |-> i, outcome |-> outcome,
               fault |-> fault]

AgentFinish(i) ==
    /\ inv[i].pc = "loaded"
    /\ \E outcome \in AgentOutcomes, fault \in BOOLEAN :
         Finished(i, outcome, fault,
                  process_message_save(store, inv[i], outcome, fault))
    /\ UNCHANGED <<db, cache, now, writes, ticks, routing, calls>>
    /\ UNCHANGED queueVars /\ UNCHANGED <<loopVars, environ>>

NextAgent ==
    \/ \E from_phone \in Customers, to_phone \in Phones, message_content \in Texts,
          conversation_id \in ConversationIds :
            PMStart(1, from_phone, to_phone, message_content, conversation_id)
    \/ AgentFinish(1)

SpecAgent == InitRouter /\ [][NextAgent]_vars

(* The calls of one instance that supply no conversation id, one after     *)
(* another, within one second of the clock or seconds apart.               *)
NextSynthesized ==
    \/ \E from_phone \in Customers, to_phone \in Phones, message_content \in Texts :
            PMStart(1, from_phone, to_phone, message_content, None)
    \/ AgentFinish(1)
    \/ \E d \in TickSteps : Tick(d)

SpecSynthesized == InitRouter /\ [][NextSynthesized]_vars

(* The calls of one instance on given conversation ids, one after another, *)
(* while the clock advances.                                               *)
NextDated ==
    \/ \E from_phone \in Customers, to_phone \in Phones, message_content \in Texts,
          conversation_id \in ConversationIds :
            PMStart(1, from_phone, to_phone, message_content, conversation_id)
    \/ AgentFinish(1)
    \/ \E d \in TickSteps : Tick(d)

SpecDated == InitRouter /\ [][NextDated]_vars

----------------------------------------------------------------------------
(* The router over a registry that changes: the registry is changed at time *)
(* 0, by this instance or by a peer, and the router resolves numbers as the *)
(* clock advances.                                                          *)

MaxWaits == 2

WaitSteps == {2, 299, 86400}

Resolved(i, to_phone, out) ==
    /\ cache' = [cache EXCEPT ![i] = out.x.r.c]
    /\ routing' = [routing EXCEPT ![i] = [routes |-> out.x.routes, ts |-> out.x.ts]]
    /\ ret' = [op |-> "get_agent_for_message", inst |-> i, arg |-> to_phone,
               result |-> out.result]

GetAgentForMessage(i, from_phone, to_phone) ==
    /\ Resolved(i, to_phone, get_agent_for_message(Router(i), from_phone, to_phone))
    /\ UNCHANGED <<db, now, writes, ticks, store, inv, calls>>
    /\ UNCHANGED queueVars /\ UNCHANGED <<loopVars, environ>>

NextStaleness ==
    \/ \E m \in MappingIds : now = 0 /\ PeerRemoveMapping(m)
    \/ \E a \in AgentIds, cid \in ChannelIds, is_primary \in BOOLEAN :
           now = 0 /\ PeerUiAddMapping(a, cid, is_primary)
    \/ \E i \in Local, m \in MappingIds : now = 0 /\ RemoveMapping(i, m)
    \/ \E i \in Local, cid \in ChannelIds, active \in BOOLEAN :
           now = 0 /\ UpdateChannel(i, cid, P1, active)
    \/ \E i \in Local, phone \in Phones : GetAgentForPhone(i, phone)
    \/ \E i \in Local, to_phone \in ToPhones :
           GetAgentForMessage(i, Str(TRUE, "15550002"), to_phone)
    \/ \E d \in WaitSteps : Advance(d, MaxWaits)

SpecStaleness == InitRegistry /\ [][NextStaleness]_vars

----------------------------------------------------------------------------
(* The diagnostics: ConfigurationManager.validate_configuration and        *)
(* MultiAgentRouter.validate_routing_config.                               *)

Issue(kind, subject, ref) == [kind |-> kind, subject |-> subject, ref |-> ref]

(* "Mapping ... references non-existent agent ...", then "... channel ..." *)
RECURSIVE MappingIssues(_, _)
MappingIssues(c, mappings) ==
    IF Len(mappings) = 0 THEN <<>>
    ELSE (IF DictHas(c.agents, mappings[1].agent_id) THEN <<>>
          ELSE <<Issue("agent", mappings[1].mapping_id, <<mappings[1].agent_id>>)>>)
         \o (IF DictHas(c.channels, mappings[1].channel_id) THEN <<>>
             ELSE <<Issue("channel", mappings[1].mapping_id, <<mappings[1].channel_id>>)>>)
         \o MappingIssues(c, Tail(mappings))

(* "Duplicate phone number ...": the phone of the channel is already in    *)
(* phone_numbers, put there by an earlier channel                          *)
RECURSIVE DuplicateIssues(_, _)
DuplicateIssues(channels, n) ==
    IF n > Len(channels) THEN <<>>
    ELSE (IF \E k \in 1..(n - 1) : channels[k].phone_number = channels[n].phone_number
          THEN <<Issue("phone", channels[n].channel_id, <<channels[n].phone_number>>)>>
          ELSE <<>>)
         \o DuplicateIssues(channels, n + 1)

(* "Agent ... has no channel mappings", by get_mappings_by_agent on the    *)
(* caches as they are after its refresh                                    *)
Unmapped(agents, mappings) ==
    SelectSeq(agents, LAMBDA agent : \A n \in 1..Len(mappings) :
                                         mappings[n].agent_id # agent.agent_id)

(* a report that is valid only without issues and without warnings *)
NoFindings(issues, warnings) == Len(issues) = 0 /\ Len(warnings) = 0

(* "valid": len(issues) == 0 *)
Valid(issues, warnings) == Len(issues) = 0

Report(issues, warnings) ==
    [valid |-> Valid(issues, warnings), issues |-> issues, warnings |-> warnings]

(* The issues come from the caches as they are at the call; the warnings   *)
(* and get_stats refresh them.                                             *)
validate_configuration(R) ==
    [r |-> refresh_cache_if_needed(R),
     result |-> Report(MappingIssues(R.c, R.c.mappings) \o DuplicateIssues(R.c.channels, 1),
                       Unmapped(R.c.agents, refresh_cache_if_needed(R).c.mappings))]

(* "Channel ... has no agent mapping": the phone is not a key of the       *)
(* routing cache                                                           *)
RouteIssues(channels, routes) ==
    SelectSeq(channels, LAMBDA channel : ~DictHas(routes, channel.phone_number))

(* "Phone number ... has multiple active routes": a key of the routing     *)
(* cache counted more than once                                            *)
CountIssues(routes) ==
    SelectSeq(routes, LAMBDA route :
        Cardinality({n \in 1..Len(routes) : routes[n].id = route.id}) > 1)

RoutingReport(X, channels) ==
    [x |-> [r |-> channels.r, routes |-> X.routes, ts |-> X.ts],
     result |-> [valid |-> Len(RouteIssues(channels.result, X.routes)) = 0
                           /\ Len(CountIssues(X.routes)) = 0,
                 no_route |-> RouteIssues(channels.result, X.routes),
                 multiple |-> CountIssues(X.routes),
                 total_routes |-> Len(X.routes)]]

ListActive(X) == RoutingReport(X, list_channels(X.r, TRUE, TRUE))

validate_routing_config(X) == ListActive(refresh_routing_cache(X))

ValidateConfiguration(i) ==
    Read(i, "validate_configuration", None, validate_configuration(Reg(i)))

Diagnosed(i, out) ==
    /\ cache' = [cache EXCEPT ![i] = out.x.r.c]
    /\ routing' = [routing EXCEPT ![i] = [routes |-> out.x.routes, ts |-> out.x.ts]]
    /\ ret' = [op |-> "validate_routing_config", inst |-> i, result |-> out.result]

ValidateRoutingConfig(i) ==
    /\ Diagnosed(i, validate_routing_config(
                        [r |-> Reg(i), routes |-> routing[i].routes, ts |-> routing[i].ts]))
    /\ UNCHANGED <<db, now, writes, ticks, store, inv, calls>>
    /\ UNCHANGED queueVars /\ UNCHANGED <<loopVars, environ>>

NextDiagnostics ==
    \/ \E i \in Local, cid \in ChannelIds, phone \in Phones : AddChannel(i, cid, phone)
    \/ \E i \in Local, m \in MappingIds, a \in AgentIds, cid \in ChannelIds,
          primary \in BOOLEAN :
           AddMapping(i, m, a, cid, primary, TRUE)
    \/ \E i \in Local, a \in AgentIds : RemoveAgent(i, a)
    \/ \E i \in Local, cid \in ChannelIds : RemoveChannel(i, cid)
    \/ \E m \in MappingIds : PeerRemoveMapping(m)
    \/ \E i \in Local : ValidateConfiguration(i)
    \/ \E i \in Local : ValidateRoutingConfig(i)
    \/ \E d \in TickSteps : Tick(d)

SpecDiagnostics == InitRegistry /\ [][NextDiagnostics]_vars

(* The routing cache rebuilt over a registry in which channels are added,  *)
(* deactivated and mapped.                                                 *)
NextRoutes ==
    \/ \E i \in Local, cid \in ChannelIds, phone \in Phones : AddChannel(i, cid, phone)
    \/ \E i \in Local, cid \in ChannelIds, phone \in Phones, active \in BOOLEAN :
           UpdateChannel(i, cid, phone, active)
    \/ \E i \in Local, m \in MappingIds, a \in AgentIds, cid \in ChannelIds,
          primary \in BOOLEAN :
           AddMapping(i, m, a, cid, primary, TRUE)
    \/ \E i \in Local : ValidateRoutingConfig(i)
    \/ \E d \in TickSteps : Tick(d)

SpecRoutes == InitRegistry /\ [][NextRoutes]_vars

----------------------------------------------------------------------------
(* ServiceBusBackgroundProcessor.  The processor runs in instance 1; the   *)
(* broker redelivers a message that was abandoned or whose lock ran out.   *)

MaxDeliveries == 2

MessageReceived == "Microsoft.Communication.AdvancedMessageReceived"

(* data.get('media'): an attachment with its id, MIME type and caption *)
Media(id, mimeType, caption) == [id |-> id, mimeType |-> mimeType, caption |-> caption]

(* The bodies a queue message can carry: a text message, an event of       *)
(* another type, a message without text or with blanks only, a voice note  *)
(* and a picture without text, a body that is not JSON.                    *)
Body(wellformed, eventType, content, media, from, to) ==
    [wellformed |-> wellformed, eventType |-> eventType, channelType |-> "whatsapp",
     content |-> content, media |-> media, from |-> from, to |-> to]

TextBodies(from) ==
    {Body(TRUE, MessageReceived, "hello", None, from, to) : to \in Phones}

Bodies(from) ==
    TextBodies(from)
    \cup {Body(TRUE, "Microsoft.Communication.Other", "hello", None, from, P1),
          Body(TRUE, MessageReceived, "", None, from, P1),
          Body(TRUE, MessageReceived, " ", None, from, P1),
          Body(TRUE, MessageReceived, "", <<Media(TRUE, "audio", "")>>, from, P1),
          Body(TRUE, MessageReceived, "", <<Media(TRUE, "image", "")>>, from, P1),
          Body(FALSE, "", "", None, from, P1)}

(* What the download and the transcription of an attachment give: a        *)
(* failure, no text, a text.                                               *)
MediaOutcomes == {[ok |-> FALSE, text |-> ""], [ok |-> TRUE, text |-> ""],
                  [ok |-> TRUE, text |-> "hello"]}

(* A message of the queue with what its last delivery did: whether the     *)
(* handler raised or returned, the text it extracted, whether it called    *)
(* process_message and with which result, and how the message came to be   *)
(* in the queue.                                                           *)
Queued(body) ==
    [body |-> body, state |-> "queued", deliveries |-> 0, handler |-> "none",
     text |-> None, router |-> "not called", via |-> "new"]

(* an id of the channel type alone, the same for every sender *)
ConversationIdOfChannel(channel_type, from_number) == <<channel_type, "">>

(* f"{channel_type}_{from_number.replace('+', '')}" *)
ConversationId(channel_type, from_number) == <<channel_type, from_number.body>>

(* _send_response_to_channel: one send through the channel of the route;   *)
(* a failed send is logged and nothing else.                               *)
send_response_to_channel(sent, response_text, from_number, channel_info, sendOk) ==
    IF channel_info.channel_type \in {"whatsapp", "sms"} /\ sendOk
    THEN Append(sent, [channel_type |-> channel_info.channel_type,
                       channel_id |-> channel_info.channel_id,
                       to |-> from_number,
                       content |-> response_text])
    ELSE sent

(* process_message from its first to its last statement *)
Processed(x, saved) == [x |-> x, store |-> saved.store, result |-> saved.inv.result]

AfterLoad(l, documents, outcome, fault) ==
    IF l.inv.pc = "done"
    THEN [x |-> l.x, store |-> documents, result |-> l.inv.result]
    ELSE Processed(l.x, process_message_save(documents, l.inv, outcome, fault))

process_message(X, documents, from_phone, to_phone, message_content, conversation_id, faultLoad, outcome, faultSave) ==
    AfterLoad(process_message_load(X, documents, from_phone, to_phone, message_content,
                                   conversation_id, faultLoad),
              documents, outcome, faultSave)

RouterResult(result) == IF result.result.success THEN "succeeded" ELSE "failed"

(* a handler that raises when process_message reports a failure *)
RespondRaising(result, content, sent, from_number, sendOk) ==
    [x |-> result.x, store |-> result.store, raised |-> ~result.result.success,
     text |-> <<content>>, router |-> RouterResult(result),
     outbox |-> IF result.result.success
                THEN send_response_to_channel(sent, result.result.response[1],
                                              from_number,
                                              result.result.routing_info[1], sendOk)
                ELSE sent]

(* a handler that answers a failure of process_message with the apology *)
RespondWithApology(result, content, sent, from_number, sendOk) ==
    [x |-> result.x, store |-> result.store, raised |-> FALSE,
     text |-> <<content>>, router |-> RouterResult(result),
     outbox |-> IF result.result.success
                THEN send_response_to_channel(sent, result.result.response[1],
                                              from_number,
                                              result.result.routing_info[1], sendOk)
                ELSE Append(sent, [channel_type |-> "whatsapp", channel_id |-> "",
                                   to |-> from_number, content |-> Apology])]

(* _handle_message after process_message returned *)
Respond(result, content, sent, from_number, sendOk) ==
    [x |-> result.x, store |-> result.store, raised |-> FALSE,
     text |-> <<content>>, router |-> RouterResult(result),
     outbox |-> IF result.result.success
                THEN send_response_to_channel(sent, result.result.response[1],
                                              from_number,
                                              result.result.routing_info[1], sendOk)
                ELSE sent]

(* _process_media: the transcription of a voice note, the caption of a    *)
(* picture, and the content of the message when there is neither or when   *)
(* the download or the transcription fails                                 *)
process_media(media, existing_content, heard) ==
    IF ~media.id \/ ~heard.ok THEN existing_content
    ELSE IF media.mimeType = "audio" THEN heard.text
    ELSE IF media.mimeType = "image" /\ media.caption # ""
    THEN media.caption
    ELSE existing_content

(* content.strip() on the texts of the model *)
strip(content) == IF content = " " THEN "" ELSE content

(* a test that takes blanks for text *)
EmptyOnly(content) == content = ""

(* not content or content.strip() == "" *)
NoContent(content) == content = "" \/ strip(content) = ""

(* a test that takes every event for an inbound message *)
AnyEvent(eventType) == TRUE

(* eventType == "Microsoft.Communication.AdvancedMessageReceived" *)
Recognized(eventType) == eventType = MessageReceived

(* _handle_message returns or raises before process_message is called *)
Skip(X, documents, sent, text, raised) ==
    [x |-> X, store |-> documents, outbox |-> sent, raised |-> raised,
     text |-> text, router |-> "not called"]

(* _handle_message from the test of the extracted text *)
handle_content(X, documents, sent, body, content, faultLoad, outcome, faultSave, sendOk) ==
    IF NoContent(content)
    THEN Skip(X, documents, sent, <<content>>, FALSE)
    ELSE Respond(process_message(X, documents, body.from, body.to, content,
                                 ConversationId(body.channelType, body.from),
                                 faultLoad, outcome, faultSave),
                 content, sent, body.from, sendOk)

handle_message(X, documents, sent, body, heard, faultLoad, outcome, faultSave, sendOk) ==
    IF ~body.wellformed
    THEN Skip(X, documents, sent, None, TRUE)
    ELSE IF ~Recognized(body.eventType)
    THEN Skip(X, documents, sent, None, FALSE)
    ELSE handle_content(X, documents, sent, body,
                        IF body.media # None
                        THEN process_media(body.media[1], body.content, heard)
                        ELSE body.content,
                        faultLoad, outcome, faultSave, sendOk)

InitQueue ==
    \E config \in RouterConfigs :
        /\ InitWith(config)
        /\ \E b1 \in Bodies(Str(TRUE, "15550002")), b2 \in TextBodies(Str(TRUE, "15550003")) :
               queue = <<Queued(b1), Queued(b2)>>

(* the receiver hands over the next message *)
ReceiveMessage(n) ==
    /\ running
    /\ queue[n].state = "queued"
    /\ queue[n].deliveries < MaxDeliveries
    /\ \A k \in 1..Len(queue) : queue[k].state \notin {"locked", "handled"}
    /\ queue' = [queue EXCEPT ![n].state = "locked", ![n].deliveries = @ + 1]
    /\ UNCHANGED <<db, cache, now, ret, writes, ticks, outbox, running>>
    /\ UNCHANGED routerVars
    /\ UNCHANGED <<loopVars, environ>>

(* a processor that goes on to complete_message whatever the handler did *)
CompleteAlways(raised) == "handled"

(* try: _handle_message, then complete_message; except: abandon_message *)
AfterHandler(raised) == IF raised THEN "queued" ELSE "handled"

Handled(n, out) ==
    /\ cache' = [cache EXCEPT ![1] = out.x.r.c]
    /\ routing' = [routing EXCEPT ![1] = [routes |-> out.x.routes, ts |-> out.x.ts]]
    /\ store' = out.store
    /\ outbox' = out.outbox
    /\ queue' = [queue EXCEPT ![n].state = AfterHandler(out.raised),
                              ![n].handler = IF out.raised THEN "raised" ELSE "returned",
                              ![n].text = out.text,
                              ![n].router = out.router,
                              ![n].via = IF out.raised THEN "handler raised" ELSE @]

(* await self._handle_message(message); when it raises, abandon_message *)
HandleMessage(n) ==
    /\ running
    /\ queue[n].state = "locked"
    /\ \E heard \in MediaOutcomes, faultLoad \in BOOLEAN, outcome \in AgentOutcomes,
          faultSave \in BOOLEAN, sendOk \in BOOLEAN :
         Handled(n, handle_message(Router(1), store, outbox, queue[n].body, heard,
                                   faultLoad, outcome, faultSave, sendOk))
    /\ UNCHANGED <<db, now, ret, writes, ticks, inv, calls, running>>
    /\ UNCHANGED <<loopVars, environ>>

(* await receiver.complete_message(message); when it raises, abandon_message *)
CompleteMessage(n) ==
    /\ running
    /\ queue[n].state = "handled"
    /\ \E ok \in BOOLEAN :
         queue' = [queue EXCEPT ![n].state = IF ok THEN "completed" ELSE "queued",
                                ![n].via = IF ok THEN @ ELSE "complete failed"]
    /\ UNCHANGED <<db, cache, now, ret, writes, ticks, outbox, running>>
    /\ UNCHANGED routerVars
    /\ UNCHANGED <<loopVars, environ>>

(* stop(): the task is cancelled where it waits, for the next message or   *)
(* for complete_message; an unsettled message returns to the queue when    *)
(* its lock runs out.                                                      *)
Stop ==
    /\ running
    /\ \A k \in 1..Len(queue) : queue[k].state # "locked"
    /\ running' = FALSE
    /\ queue' = [k \in 1..Len(queue) |->
                    IF queue[k].state = "handled"
                    THEN [queue[k] EXCEPT !.state = "queued", !.via = "stopped"]
                    ELSE queue[k]]
    /\ UNCHANGED <<db, cache, now, ret, writes, ticks, outbox>>
    /\ UNCHANGED routerVars
    /\ UNCHANGED <<loopVars, environ>>

Start ==
    /\ ~running
    /\ running' = TRUE
    /\ UNCHANGED <<db, cache, now, ret, writes, ticks, queue, outbox>>
    /\ UNCHANGED routerVars
    /\ UNCHANGED <<loopVars, environ>>

NextQueue ==
    \/ \E n \in 1..Len(queue) : ReceiveMessage(n)
    \/ \E n \in 1..Len(queue) : HandleMessage(n)
    \/ \E n \in 1..Len(queue) : CompleteMessage(n)
    \/ Stop
    \/ Start

SpecQueue == InitQueue /\ [][NextQueue]_vars

(* Two messages of one sender on one channel type, the second addressed to *)
(* a business number written with or without the leading '+'.              *)
Sender == Str(TRUE, "15550002")

InitConversation ==
    \E config \in RouterConfigs, to1 \in Phones, to2 \in StorePhones :
        /\ InitWith(config)
        /\ queue = <<Queued(Body(TRUE, MessageReceived, "hello", None, Sender, to1)),
                     Queued(Body(TRUE, MessageReceived, "bye", None, Sender, to2))>>

SpecConversation == InitConversation /\ [][NextQueue]_vars

----------------------------------------------------------------------------
(* The life cycle of ServiceBusBackgroundProcessor: start(), stop() and    *)
(* the receive-loop task _process_messages, which moves from one await to  *)
(* the next.  P = [running, task, tasks] is the processor.                 *)

MaxStarts == 2
MaxOutages == 2

(* A task: the await it is suspended at, the message it holds, and         *)
(* whether task.cancel() has been called on it.                            *)
(*   created      created by start(), not run yet, or at the loop test     *)
(*   connecting   entering the client and the receiver                     *)
(*   listening    waiting for the next message                             *)
(*   handling     suspended inside _handle_message                         *)
(*   completing   in receiver.complete_message                             *)
(*   abandoning   in receiver.abandon_message                              *)
(*   sleeping     in asyncio.sleep(10)                                     *)
(*   done         finished                                                 *)
(* message: "none", "received" (no settlement call made for it yet),       *)
(* "completing", "abandoning" (that call has been made).                   *)
LoopTask(pc, message, cancel) == [pc |-> pc, message |-> message, cancel |-> cancel]

Processor == [running |-> running, task |-> task, tasks |-> tasks]

(* a start() that does not look at the running flag *)
StartUnguarded(P) ==
    [running |-> TRUE,
     tasks |-> Append(P.tasks, LoopTask("created", "none", FALSE)),
     task |-> <<Len(P.tasks) + 1>>]

(* start(): nothing when already running, else the flag and a new task *)
start(P) ==
    IF P.running THEN P
    ELSE [running |-> TRUE,
          tasks |-> Append(P.tasks, LoopTask("created", "none", FALSE)),
          task |-> <<Len(P.tasks) + 1>>]

(* task.cancel(): a request that a finished task ignores *)
cancel(t) == IF t.pc = "done" THEN t ELSE [t EXCEPT !.cancel = TRUE]

(* stop() up to its await: the flag is cleared and the task cancelled *)
stop(P) ==
    [running |-> FALSE, task |-> P.task,
     tasks |-> IF P.task = None THEN P.tasks
               ELSE [P.tasks EXCEPT ![P.task[1]] = cancel(@)]]

SetProcessor(P) ==
    /\ running' = P.running
    /\ task' = P.task
    /\ tasks' = P.tasks

LoopOnly ==
    /\ UNCHANGED <<db, cache, now, writes, ticks, queue, outbox>>
    /\ UNCHANGED routerVars

(* await servicebus_processor.start() *)
StartCall ==
    /\ caller = "idle"
    /\ Len(tasks) < MaxStarts
    /\ SetProcessor(start(Processor))
    /\ ret' = [op |-> "start", created |-> ~running]
    /\ UNCHANGED <<caller, broker, outages, environ>>
    /\ LoopOnly

(* stop() from its first statement to await self.task *)
StopCall ==
    /\ caller = "idle"
    /\ SetProcessor(stop(Processor))
    /\ caller' = "stopping"
    /\ ret' = [op |-> "stop", created |-> FALSE]
    /\ UNCHANGED <<broker, outages, environ>>
    /\ LoopOnly

(* await self.task ends when the task has finished, and stop() returns *)
StopReturn ==
    /\ caller = "stopping"
    /\ task # None => tasks[task[1]].pc = "done"
    /\ caller' = "idle"
    /\ ret' = [op |-> "stop returned", created |-> FALSE]
    /\ UNCHANGED <<running, tasks, task, broker, outages, environ>>
    /\ LoopOnly

(* the task goes on; the caller, the flag and the broker stay *)
Moves(t, pc, message) ==
    /\ tasks' = [tasks EXCEPT ![t] = LoopTask(pc, message, @.cancel)]
    /\ UNCHANGED <<ret, running, task, caller, broker, outages, environ>>
    /\ LoopOnly

Suspended(t, pc) ==
    /\ t \in 1..Len(tasks)
    /\ tasks[t].pc = pc
    /\ ~tasks[t].cancel

(* a loop that ends on a connection error *)
ExitOnError(flag) == "done"

(* except Exception of the outer try: asyncio.sleep(10) while running;     *)
(* the loop test then ends the loop when the flag is cleared               *)
on_connection_error(flag) == IF flag THEN "sleeping" ELSE "done"

(* CancelledError is raised at the await where the task is suspended; no   *)
(* except clause of the loop or of the handler catches it                  *)
Cancelled(t) ==
    /\ t \in 1..Len(tasks)
    /\ tasks[t].pc # "done"
    /\ tasks[t].cancel
    /\ Moves(t, "done", tasks[t].message)

(* while self.running *)
LoopTest(t) ==
    /\ Suspended(t, "created")
    /\ Moves(t, IF running THEN "connecting" ELSE "done", "none")

(* async with ServiceBusClient(...), async with get_queue_receiver(...) *)
Connect(t) ==
    /\ Suspended(t, "connecting")
    /\ Moves(t, IF broker = "up" THEN "listening" ELSE on_connection_error(running),
             "none")

(* The pc after _handle_message ran until it returned, raised, or was      *)
(* suspended at an await of its own (the send of an SMS reply).            *)
AfterHandle(handler) ==
    CASE handler = "returned" -> "completing"
      [] handler = "raised" -> "abandoning"
      [] handler = "suspended" -> "handling"

MessageAt(pc) == IF pc = "handling" THEN "received" ELSE pc

(* async for message in receiver: a message arrives; the loop breaks when  *)
(* the flag is cleared, else the handler runs                              *)
Receive(t, handler) ==
    /\ Suspended(t, "listening")
    /\ broker = "up"
    /\ IF ~running
       THEN Moves(t, "done", "received")
       ELSE Moves(t, AfterHandle(handler), MessageAt(AfterHandle(handler)))

(* no message within max_wait_time: the iteration ends, the receiver and   *)
(* the client are closed and the loop test is made again                   *)
IdleTimeout(t) ==
    /\ Suspended(t, "listening")
    /\ broker = "up"
    /\ Moves(t, "created", "none")

(* the connection breaks while the task waits for a message *)
ConnectionLost(t) ==
    /\ Suspended(t, "listening")
    /\ broker = "down"
    /\ Moves(t, on_connection_error(running), "none")

(* _handle_message goes on after its await *)
Resume(t, handler) ==
    /\ Suspended(t, "handling")
    /\ handler # "suspended"
    /\ Moves(t, AfterHandle(handler), MessageAt(AfterHandle(handler)))

(* complete_message: done, or it raises and the message is abandoned *)
Complete(t, ok) ==
    /\ Suspended(t, "completing")
    /\ ok => broker = "up"
    /\ IF ok THEN Moves(t, "listening", "none")
       ELSE Moves(t, "abandoning", "abandoning")

(* abandon_message: done, or it raises into the outer try *)
Abandon(t, ok) ==
    /\ Suspended(t, "abandoning")
    /\ ok => broker = "up"
    /\ Moves(t, IF ok THEN "listening" ELSE on_connection_error(running), "none")

(* asyncio.sleep(10) is over *)
Wake(t) ==
    /\ Suspended(t, "sleeping")
    /\ Moves(t, "created", "none")

Handlers == {"returned", "raised", "suspended"}

TaskStep(t) ==
    \/ Cancelled(t)
    \/ LoopTest(t)
    \/ Connect(t)
    \/ \E handler \in Handlers : Receive(t, handler)
    \/ IdleTimeout(t)
    \/ ConnectionLost(t)
    \/ \E handler \in Handlers : Resume(t, handler)
    \/ \E ok \in BOOLEAN : Complete(t, ok)
    \/ \E ok \in BOOLEAN : Abandon(t, ok)
    \/ Wake(t)

BrokerDown ==
    /\ broker = "up"
    /\ outages < MaxOutages
    /\ broker' = "down"
    /\ outages' = outages + 1
    /\ UNCHANGED <<ret, running, tasks, task, caller, environ>>
    /\ LoopOnly

BrokerUp ==
    /\ broker = "down"
    /\ broker' = "up"
    /\ UNCHANGED <<ret, running, tasks, task, caller, outages, environ>>
    /\ LoopOnly

(* ServiceBusBackgroundProcessor.__init__: not running, no task *)
InitLoop ==
    /\ InitData(ScenarioConfig)
    /\ queue = <<>>
    /\ running = FALSE
    /\ NoLoop

NextLoop ==
    \/ StartCall
    \/ StopCall
    \/ StopReturn
    \/ \E t \in 1..Len(tasks) : TaskStep(t)
    \/ BrokerDown
    \/ BrokerUp

SpecLoop == InitLoop /\ [][NextLoop]_vars

(* every task goes on from its await, and an outage of the broker ends *)
SpecLoopFair ==
    /\ SpecLoop
    /\ WF_vars(\E t \in 1..Len(tasks) : TaskStep(t))
    /\ WF_vars(BrokerUp)

----------------------------------------------------------------------------
(* Properties of the registry *)

ReadOps == {"get_agent_for_phone", "list_channels", "get_agent"}

ActivePrimaries(mappings, cid) ==
    {n \in 1..Len(mappings) : /\ mappings[n].channel_id = cid
                              /\ mappings[n].is_active
                              /\ mappings[n].is_primary}

ActiveMappings(mappings, cid) ==
    {n \in 1..Len(mappings) : mappings[n].channel_id = cid /\ mappings[n].is_active}

MappingsOf(mappings, cid) == {n \in 1..Len(mappings) : mappings[n].channel_id = cid}

AgentOf(c, a) == IF DictHas(c.agents, a) THEN <<AgentDoc(a)>> ELSE None

Least(S) == CHOOSE n \in S : \A k \in S : n <= k

(* C6: get_agent_for_phone(P) returns none when no channel of the cache has
   phone number P; for every channel C of the cache with phone number P it
   returns none when C has no active mapping, else the agent of C's active
   mapping flagged is_primary if there is one, else the agent of C's first
   active mapping; a channel C with exactly one mapping, flagged primary,
   gets that mapping's agent. *)
C6_AgentForPhone ==
    ret.op = "get_agent_for_phone" =>
        LET c == cache[ret.inst]
            chans == {n \in 1..Len(c.channels) : c.channels[n].phone_number = ret.arg}
        IN  /\ chans = {} => ret.result = None
            /\ \A n \in chans :
                 LET cid == c.channels[n].channel_id
                     act == ActiveMappings(c.mappings, cid)
                     prim == ActivePrimaries(c.mappings, cid)
                     all == MappingsOf(c.mappings, cid)
                 IN  /\ act = {} => ret.result = None
                     /\ prim # {} =>
                          ret.result = AgentOf(c, c.mappings[Least(prim)].agent_id)
                     /\ (act # {} /\ prim = {}) =>
                          ret.result = AgentOf(c, c.mappings[Least(act)].agent_id)
                     /\ (Cardinality(all) = 1 /\ prim = all) =>
                          ret.result = AgentOf(c, c.mappings[Least(all)].agent_id)

(* The same statement about the one channel get_channel_by_phone resolves,
   the first channel of the cache with that phone number. *)
C6_OnResolvedChannel ==
    ret.op = "get_agent_for_phone" =>
        LET c == cache[ret.inst]
            chans == {n \in 1..Len(c.channels) : c.channels[n].phone_number = ret.arg}
        IN  /\ chans = {} => ret.result = None
            /\ chans # {} =>
                 LET cid == c.channels[Least(chans)].channel_id
                     act == ActiveMappings(c.mappings, cid)
                     prim == ActivePrimaries(c.mappings, cid)
                 IN  /\ act = {} => ret.result = None
                     /\ prim # {} =>
                          ret.result = AgentOf(c, c.mappings[Least(prim)].agent_id)
                     /\ (act # {} /\ prim = {}) =>
                          ret.result = AgentOf(c, c.mappings[Least(act)].agent_id)

AtMostOnePrimary(mappings) ==
    \A cid \in ChannelIds : Cardinality(ActivePrimaries(mappings, cid)) <= 1

(* C7: a mapping insertion made through the add-mapping operation of the
   config UI leaves every channel with at most one active primary mapping,
   in persistent storage and in the registry cache, when that was so before
   the insertion. *)
C7_OnePrimaryAfterInsert ==
    [][(/\ ret'.op = "ui_add_mapping"
        /\ ret'.ok
        /\ AtMostOnePrimary(db.mappings)
        /\ AtMostOnePrimary(cache[ret'.inst].mappings))
       => (/\ AtMostOnePrimary(db'.mappings)
           /\ AtMostOnePrimary(cache'[ret'.inst].mappings))]_vars

UniqueActivePhones(channels) ==
    \A n, k \in 1..Len(channels) :
        (/\ n # k
         /\ channels[n].is_active
         /\ channels[k].is_active) => channels[n].phone_number # channels[k].phone_number

(* C8: no two active channels held by the registry, in storage or in the
   cache, have the same phone_number. *)
C8_UniqueActivePhones ==
    /\ UniqueActivePhones(db.channels)
    /\ \A i \in Instances : UniqueActivePhones(cache[i].channels)

References(m, op, id) ==
    IF op = "remove_agent" THEN m.agent_id = id ELSE m.channel_id = id

(* C9: when remove_agent(id) or remove_channel(id) returned true, no mapping
   that references id remains in persistent storage or in the cache. *)
C9_NoMappingLeft ==
    (ret.op \in {"remove_agent", "remove_channel"} /\ ret.ok) =>
        /\ \A n \in 1..Len(db.mappings) : ~References(db.mappings[n], ret.op, ret.arg)
        /\ \A n \in 1..Len(cache[ret.inst].mappings) :
               ~References(cache[ret.inst].mappings[n], ret.op, ret.arg)

(* C10: a registry read issued when the cache was last refreshed more than
   300 seconds earlier answers from caches reloaded from persistent storage. *)
C10_StaleCacheReloaded ==
    (ret.op \in ReadOps /\ ret.age > CacheTTL) =>
        /\ cache[ret.inst].agents = db.agents
        /\ cache[ret.inst].channels = db.channels
        /\ cache[ret.inst].mappings = db.mappings

OwnWrites == {"add_agent", "add_channel", "add_mapping",
              "remove_agent", "remove_channel", "remove_mapping"}

(* C12: after add_agent, add_channel, add_mapping, remove_agent,
   remove_channel or remove_mapping returned true, a read of the same process
   made at once (get_agent, get_channel, get_channel_by_phone,
   get_mappings_by_channel, get_agent_for_phone) shows the added document and
   does not show the removed one. *)
C12_OwnWriteVisible ==
    [][(/\ writes' = writes + 1
        /\ ret'.op \in OwnWrites
        /\ ret'.inst \in Instances
        /\ ret'.ok)
       => LET R1 == [db |-> db', c |-> cache'[ret'.inst]]
              id == ret'.arg
          IN  CASE ret'.op = "add_agent" -> get_agent(R1, id).result # None
                [] ret'.op = "add_channel" ->
                     /\ get_channel(R1, id).result = DictGet(db'.channels, id)
                     /\ get_channel_by_phone(
                            R1, DictGet(db'.channels, id)[1].phone_number).result # None
                [] ret'.op = "add_mapping" ->
                     \E n \in 1..Len(get_mappings_by_channel(
                                R1, DictGet(db'.mappings, id)[1].channel_id).result) :
                         get_mappings_by_channel(
                             R1, DictGet(db'.mappings, id)[1].channel_id).result[n]
                           = DictGet(db'.mappings, id)[1]
                [] ret'.op = "remove_agent" ->
                     /\ get_agent(R1, id).result = None
                     /\ \A phone \in Phones :
                           \/ get_agent_for_phone(R1, phone).result = None
                           \/ get_agent_for_phone(R1, phone).result[1].agent_id # id
                [] ret'.op = "remove_channel" ->
                     /\ get_channel(R1, id).result = None
                     /\ \A phone \in Phones :
                           \/ get_channel_by_phone(R1, phone).result = None
                           \/ get_channel_by_phone(R1, phone).result[1].channel_id # id
                [] ret'.op = "remove_mapping" ->
                     \A cid \in ChannelIds :
                         id \notin DictKeys(get_mappings_by_channel(R1, cid).result)]_vars

(* add_mapping returned true on caches that were loaded before and are
   within their TTL *)
C12_WriteOnLoadedCache ==
    /\ ret.op = "add_mapping"
    /\ ret.ok
    /\ ret.inst \in Instances
    /\ cache[ret.inst].ts # NoTime
    /\ ~NeedsRefresh(cache[ret.inst].ts)
    /\ Len(cache[ret.inst].mappings) > 1

----------------------------------------------------------------------------
(* Properties of the router and of the conversation store *)

Messages(documents, id) ==
    IF DictHas(documents, id) THEN DictGet(documents, id)[1].messages ELSE <<>>

LoadedMessages(v) ==
    IF v.existing_conversation = None THEN <<>> ELSE v.existing_conversation[1].messages

InvDoc(v) == DocId(v.call.to_phone, v.call.conversation_id)

(* the two messages of a successful invocation *)
Pair(v) ==
    <<[role |-> "user", content |-> v.call.message_content,
       from_phone |-> v.call.from_phone],
      [role |-> "assistant", content |-> v.result.response[1],
       agent_id |-> v.result.routing_info[1].agent_id]>>

(* C1: when the calls are executed one after another, every successful
   process_message call leaves its conversation with the messages persisted
   before the call followed by exactly two new ones: no persisted message is
   removed, changed or reordered, and no other document changes. *)
C1_SequentialAppend ==
    [][\A i \in Instances :
          (inv[i].pc = "loaded" /\ inv'[i].pc = "done" /\ inv'[i].result.success) =>
              LET id == InvDoc(inv[i])
                  before == Messages(store, id)
                  after == Messages(store', id)
              IN  /\ Len(after) = Len(before) + 2
                  /\ SubSeq(after, 1, Len(before)) = before
                  /\ SubSeq(after, Len(before) + 1, Len(after)) = Pair(inv'[i])
                  /\ \A n \in 1..Len(store) :
                        store[n].id # id => store'[n] = store[n]]_vars

(* two calls with different from numbers have left one conversation with 4
   messages *)
C1_FourMessages ==
    /\ \A i \in Instances : inv[i].pc # "loaded"
    /\ \E n \in 1..Len(store) :
          /\ Len(store[n].messages) = 4
          /\ store[n].messages[1].from_phone # store[n].messages[3].from_phone

(* C2: when an invocation saves a conversation that another invocation has
   loaded in the same state and saved in the meantime, the saved document is
   what this invocation loaded followed by its own two messages: the document
   does not grow and the two messages of the other invocation are gone. *)
C2_LastWriterWins ==
    [][\A i, j \in Instances :
          (/\ i # j
           /\ inv[i].pc = "loaded" /\ inv'[i].pc = "done" /\ inv'[i].result.success
           /\ inv[j].pc = "done" /\ inv[j].result.success
           /\ InvDoc(inv[j]) = InvDoc(inv[i])
           /\ inv[j].existing_conversation = inv[i].existing_conversation
           /\ Messages(store, InvDoc(inv[i])) = LoadedMessages(inv[j]) \o Pair(inv[j]))
          => (/\ Messages(store', InvDoc(inv[i])) = LoadedMessages(inv[i]) \o Pair(inv'[i])
              /\ Len(Messages(store', InvDoc(inv[i])))
                     = Len(Messages(store, InvDoc(inv[i]))))]_vars

(* both invocations succeeded on one conversation loaded in the same state,
   and the user message of one of them is not in the stored conversation *)
C2_PairLost ==
    \E i, j \in Instances :
        /\ i # j
        /\ inv[i].pc = "done" /\ inv[i].result.success
        /\ inv[j].pc = "done" /\ inv[j].result.success
        /\ InvDoc(inv[j]) = InvDoc(inv[i])
        /\ inv[j].existing_conversation = inv[i].existing_conversation
        /\ Messages(store, InvDoc(inv[i])) = LoadedMessages(inv[i]) \o Pair(inv[i])
        /\ \A n \in 1..Len(Messages(store, InvDoc(inv[i]))) :
              Messages(store, InvDoc(inv[i]))[n] # Pair(inv[j])[1]

(* the registry holds an active channel for to_phone, by its id or by its
   number, that has an active mapping to an agent of the registry *)
Configured(to_phone) ==
    \E n \in 1..Len(db.channels), k \in 1..Len(db.mappings) :
        /\ db.channels[n].is_active
        /\ IF IsChannelIdFormat(to_phone)
           THEN db.channels[n].channel_id = to_phone.body
           ELSE db.channels[n].phone_number = Normalize(to_phone)
        /\ db.mappings[k].channel_id = db.channels[n].channel_id
        /\ db.mappings[k].is_active
        /\ DictHas(db.agents, db.mappings[k].agent_id)

(* C4: a process_message call for a to_phone without a configured channel
   returns success = false with an error and without routing information,
   having made no call of the agent and no write to the conversation store. *)
C4_UnconfiguredFails ==
    [][\A i \in Instances :
          (/\ calls' = calls + 1
           /\ inv'[i] # inv[i]
           /\ ~Configured(inv'[i].call.to_phone))
          => (/\ inv'[i].pc = "done"
              /\ ~inv'[i].result.success
              /\ inv'[i].result.error = "no agent configured"
              /\ inv'[i].result.routing_info = None
              /\ inv'[i].result.response = None
              /\ inv'[i].agent_calls = 0
              /\ store' = store)]_vars

(* a call for an unconfigured number has returned while the store holds a
   conversation *)
C4_UnconfiguredCalled ==
    \E i \in Instances :
        /\ inv[i].pc = "done"
        /\ ~Configured(inv[i].call.to_phone)
        /\ ~inv[i].result.success
        /\ Len(store) > 0

(* the agents that the active channel of to_phone is mapped to by an active
   mapping flagged is_primary *)
PrimaryAgents(to_phone) ==
    {db.mappings[k].agent_id : k \in
        {k \in 1..Len(db.mappings) :
            /\ db.mappings[k].is_active
            /\ db.mappings[k].is_primary
            /\ DictHas(db.agents, db.mappings[k].agent_id)
            /\ \E n \in 1..Len(db.channels) :
                  /\ db.channels[n].is_active
                  /\ db.channels[n].channel_id = db.mappings[k].channel_id
                  /\ IF IsChannelIdFormat(to_phone)
                     THEN db.channels[n].channel_id = to_phone.body
                     ELSE db.channels[n].phone_number = Normalize(to_phone)}}

(* C5: a process_message call for the number of a channel mapped (primary)
   to agent A fails only when a call of the conversation store raised; with a
   conversation id that did not exist it returns success = true with
   routing_info.agent_id = A and leaves in the partition of to_phone that
   conversation with exactly two messages, role user with the inbound text
   and then role assistant; every persisted conversation is a sequence of
   such pairs, user message first. *)
C5_NewConversation ==
    [][\A i \in Instances :
          /\ (inv'[i].pc = "done" /\ PrimaryAgents(inv'[i].call.to_phone) # {}) =>
                (inv'[i].result.success \/ inv'[i].result.error = "exception")
          /\ (/\ inv[i].pc = "loaded" /\ inv'[i].pc = "done" /\ inv'[i].result.success
              /\ PrimaryAgents(inv[i].call.to_phone) # {}
              /\ inv[i].existing_conversation = None) =>
                LET after == Messages(store', InvDoc(inv[i]))
                IN  /\ inv'[i].result.routing_info[1].agent_id
                           \in PrimaryAgents(inv[i].call.to_phone)
                    /\ Len(after) = 2
                    /\ after[1].role = "user"
                    /\ after[1].content = inv[i].call.message_content
                    /\ after[2].role = "assistant"
                    /\ DictGet(store', InvDoc(inv[i]))[1].id[1]
                           = get_container_name(inv[i].call.to_phone)
          /\ \A n \in 1..Len(store') :
                /\ Len(store'[n].messages) % 2 = 0
                /\ \A k \in 1..Len(store'[n].messages) :
                      store'[n].messages[k].role
                          = IF k % 2 = 1 THEN "user" ELSE "assistant"]_vars

(* a call for the number of a channel with a second, primary mapping has
   created a conversation *)
C5_Created ==
    \E i \in Instances :
        /\ inv[i].pc = "done"
        /\ inv[i].result.success
        /\ inv[i].existing_conversation = None
        /\ Cardinality({k \in 1..Len(db.mappings) : db.mappings[k].is_active}) > 1
        /\ PrimaryAgents(inv[i].call.to_phone) # {}
        /\ Len(Messages(store, InvDoc(inv[i]))) = 2

----------------------------------------------------------------------------
(* Properties of the queue processor *)

QueueDoc(body) == DocId(body.to, ConversationId(body.channelType, body.from))

Sends(body) == {k \in 1..Len(outbox) : outbox[k].to = body.from}

(* C3: for each queue message, over all of its deliveries, at most one
   user/assistant pair is appended to its conversation and at most one
   response is sent out. *)
C3_AtMostOnce ==
    \A n \in 1..Len(queue) :
        /\ Len(Messages(store, QueueDoc(queue[n].body))) <= 2
        /\ Cardinality(Sends(queue[n].body)) <= 1

----------------------------------------------------------------------------
(* Properties of the router over a changing registry *)

(* what get_agent_for_message answers from caches loaded now *)
ResolvedFromStorage(from_phone, to_phone) ==
    get_agent_for_message([r |-> PeerReg, routes |-> <<>>, ts |-> NoTime],
                          from_phone, to_phone).result

(* C11: more than 300 seconds after the last change of channels or mappings,
   get_agent_for_message answers as the changed registry says. *)
C11_RouterFresh ==
    (ret.op = "get_agent_for_message" /\ now > RoutingTTL) =>
        ret.result = ResolvedFromStorage(Str(TRUE, "15550002"), ret.arg)

----------------------------------------------------------------------------
(* Partitions of the conversation store *)

(* the digit sequence of a number of StorePhones: what is written after   *)
(* the optional '+'                                                      *)
Digits(phone) == phone.body

StoreOps == {"save_conversation", "get_conversation", "delete_conversation"}

OtherPartitions(documents, phone) ==
    SelectSeq(documents, LAMBDA doc : Digits(doc.phone_number) # Digits(phone))

(* C13: an operation of the store on the number P' never returns and never *)
(* changes a conversation that was saved under a number P with other       *)
(* digits: a read under P' returns nothing or a document saved under the   *)
(* digits of P', and a save or a delete under P' leaves every document of  *)
(* the other partitions as it was, the ones with the same conversation id  *)
(* included.                                                               *)
C13_PartitionIsolated ==
    [][ret'.op \in StoreOps =>
        /\ OtherPartitions(store', ret'.phone)
             = OtherPartitions(store, ret'.phone)
        /\ ret'.found # None
            => Digits(ret'.found[1].phone_number) = Digits(ret'.phone)]_vars

(* a delete under one number succeeded while the other partition holds a   *)
(* document of the same conversation id                                    *)
C13_SameIdInBoth ==
    /\ ret.op = "delete_conversation"
    /\ ret.deleted
    /\ \E phone \in StorePhones :
          /\ Digits(phone) # Digits(ret.phone)
          /\ get_conversation(store, phone, ret.conversation_id) # None

(* C14: after save_conversation(P, id, d) a get_conversation(P', id) under *)
(* every number P' of the same digits, written with or without the '+',    *)
(* returns the saved messages.                                             *)
C14_SameDigitsSamePartition ==
    [][(ret'.op = "save_conversation" /\ ~ret'.raised) =>
        \A phone \in StorePhones :
            Digits(phone) = Digits(ret'.phone) =>
                LET found == get_conversation(store', phone,
                                              ret'.conversation_id)
                IN  found # None /\ found[1].messages = ret'.messages]_vars

(* a conversation saved under the number without '+' is read back under    *)
(* the number with '+'                                                     *)
C14_ReadUnderVariant ==
    /\ ret.op = "get_conversation"
    /\ ret.phone.plus
    /\ ret.found # None
    /\ ~ret.found[1].phone_number.plus

----------------------------------------------------------------------------
(* What the processor does with a message, by what its handler did *)

(* the step in which the handler of message n ends *)
HandlerStep(n) == queue[n].state = "locked" /\ queue'[n].state # "locked"

(* the texts that are empty or blank *)
NoText == {"", " "}

HasText(body) ==
    /\ body.wellformed
    /\ body.eventType = MessageReceived
    /\ body.content \notin NoText

(* C15: when process_message returns success = false for a message, the    *)
(* handler returns without raising, the processor goes on to complete the  *)
(* message instead of abandoning it, and nothing is sent.                  *)
C15_FailureCompletedUnsent ==
    [][\A n \in 1..Len(queue) :
          (HandlerStep(n) /\ queue'[n].router = "failed") =>
              /\ queue'[n].handler = "returned"
              /\ queue'[n].state = "handled"
              /\ outbox' = outbox]_vars

(* a message whose processing failed is completed and its sender has       *)
(* received nothing                                                        *)
C15_FailedCompleted ==
    \E n \in 1..Len(queue) :
        /\ queue[n].router = "failed"
        /\ queue[n].state = "completed"
        /\ Sends(queue[n].body) = {}

(* C16, as stated: a message whose process_message ended with success =    *)
(* false is left unacknowledged, that is, it is never completed.           *)
C16_FailureLeftUnacknowledged ==
    \A n \in 1..Len(queue) :
        queue[n].router = "failed" => queue[n].state # "completed"

(* C16, amended: when process_message ends with success = false the        *)
(* handler returns without raising, and the message is back in the queue   *)
(* for redelivery only when complete_message failed or the processor was   *)
(* stopped before completing it, never on account of the failure.          *)
C16_FailureNotRedelivered ==
    \A n \in 1..Len(queue) :
        queue[n].router = "failed" =>
            /\ queue[n].handler = "returned"
            /\ queue[n].state = "queued"
                => queue[n].via \in {"complete failed", "stopped"}

(* a message whose processing failed is completed after its one delivery   *)
C16_FailedOnceCompleted ==
    \E n \in 1..Len(queue) :
        /\ queue[n].router = "failed"
        /\ queue[n].state = "completed"
        /\ queue[n].deliveries = 1
        /\ queue[n].via = "new"

(* C17: no message of the recognized type with a text that is not blank is *)
(* acknowledged while its sender has been sent nothing.                    *)
C17_AlwaysAnswered ==
    \A n \in 1..Len(queue) :
        (HasText(queue[n].body) /\ queue[n].state = "completed")
            => Sends(queue[n].body) # {}

(* C18: a message whose handler raised is abandoned, so that it is in the  *)
(* queue or delivered again, and a message goes to complete_message and is *)
(* completed only after its handler returned without raising.              *)
C18_RaisedAbandoned ==
    \A n \in 1..Len(queue) :
        /\ queue[n].handler = "raised" => queue[n].state \in {"queued", "locked"}
        /\ queue[n].state \in {"handled", "completed"}
            => queue[n].handler = "returned"

(* a message whose handler raised has been delivered again *)
C18_Redelivered ==
    \E n \in 1..Len(queue) :
        /\ queue[n].handler = "raised"
        /\ queue[n].via = "handler raised"
        /\ queue[n].state = "locked"
        /\ queue[n].deliveries = 2

(* C19: when the text extracted from a message is empty or blank, the      *)
(* handler returns without raising and without calling process_message,    *)
(* the store and the router are left as they were, nothing is sent, and    *)
(* the processor goes on to complete the message.                          *)
C19_NoTextSkipped ==
    [][\A n \in 1..Len(queue) :
          (HandlerStep(n) /\ queue'[n].text # None /\ queue'[n].text[1] \in NoText) =>
              /\ queue'[n].state = "handled"
              /\ queue'[n].router = "not called"
              /\ outbox' = outbox
              /\ store' = store
              /\ routing' = routing]_vars

(* a message with an attachment that gave no text is completed *)
C19_SilentAttachment ==
    \E n \in 1..Len(queue) :
        /\ queue[n].body.media # None
        /\ queue[n].text # None
        /\ queue[n].text[1] \in NoText
        /\ queue[n].router = "not called"
        /\ queue[n].state = "completed"

(* C20: when the eventType of a message is not the recognized one, the     *)
(* handler returns at once: process_message is not called, the store, the  *)
(* caches of the router and the outbox are left as they were, and the      *)
(* processor goes on to complete the message.                              *)
C20_OtherEventSkipped ==
    [][\A n \in 1..Len(queue) :
          (HandlerStep(n) /\ queue[n].body.wellformed
           /\ queue[n].body.eventType # MessageReceived) =>
              /\ queue'[n].state = "handled"
              /\ queue'[n].router = "not called"
              /\ queue'[n].text = None
              /\ store' = store
              /\ outbox' = outbox
              /\ cache' = cache
              /\ routing' = routing]_vars

(* a message of another event type is completed *)
C20_OtherEventCompleted ==
    \E n \in 1..Len(queue) :
        /\ queue[n].body.wellformed
        /\ queue[n].body.eventType # MessageReceived
        /\ queue[n].handler = "returned"
        /\ queue[n].state = "completed"

----------------------------------------------------------------------------
(* The life cycle of the processor *)

ActiveTasks == {t \in 1..Len(tasks) : tasks[t].pc # "done"}

CurrentTaskAt(pc) == task # None /\ tasks[task[1]].pc = pc

(* C21: over start() and stop() calls made one after the other, at most    *)
(* one receive-loop task is unfinished at any time; a start() while the    *)
(* processor is running creates no task; and when stop() returns the flag  *)
(* is cleared and the task of the processor has been cancelled and has     *)
(* finished.                                                               *)
C21_OneLoopTask ==
    /\ [](Cardinality(ActiveTasks) <= 1)
    /\ [][(ret' # ret /\ ret'.op = "start" /\ running)
            => (tasks' = tasks /\ task' = task)]_vars
    /\ [][(caller = "stopping" /\ caller' = "idle") =>
            /\ ~running'
            /\ task' # None => (tasks'[task'[1]].pc = "done"
                                /\ tasks'[task'[1]].cancel)]_vars

(* stop() has returned for the second task, created by a start() after a   *)
(* first stop()                                                            *)
C21_StoppedTwice ==
    /\ ret.op = "stop returned"
    /\ task = <<2>>
    /\ ActiveTasks = {}

(* C22: a task that has finished holds no message that it received and    *)
(* for which it called neither complete_message nor abandon_message.       *)
C22_InFlightSettled ==
    \A t \in 1..Len(tasks) :
        tasks[t].pc = "done" => tasks[t].message # "received"

(* C23: a task ends only when it was cancelled or the flag was cleared;    *)
(* while the flag is set, an exception of the connection, of the receiver, *)
(* or of abandon_message leads to the sleep and from there to a new        *)
(* connection attempt, and a failing complete_message to abandon_message;  *)
(* and a running processor that sleeps after an error listens again,       *)
(* unless it is stopped, when the outage of the broker ends.               *)
C23_ReconnectsUntilStopped ==
    /\ [][\A t \in 1..Len(tasks) :
            (tasks[t].pc # "done" /\ tasks'[t].pc = "done")
                => (tasks[t].cancel \/ ~running)]_vars
    /\ [][\A t \in 1..Len(tasks) :
            (running /\ ~tasks'[t].cancel /\ tasks'[t] # tasks[t]) =>
                /\ (broker = "down" /\ tasks[t].pc \in {"connecting", "listening", "abandoning"})
                    => tasks'[t].pc = "sleeping"
                /\ (broker = "down" /\ tasks[t].pc = "completing")
                    => tasks'[t].pc = "abandoning"
                /\ tasks[t].pc = "sleeping" => tasks'[t].pc = "created"
                /\ tasks[t].pc = "created" => tasks'[t].pc = "connecting"]_vars
    /\ (running /\ CurrentTaskAt("sleeping")) ~> (CurrentTaskAt("listening") \/ ~running)

(* the running processor sleeps after an error *)
C23_BackingOff ==
    /\ running
    /\ CurrentTaskAt("sleeping")
    /\ broker = "down"

----------------------------------------------------------------------------
(* The agent call inside process_message *)

ApologyStrings == {Apology, Trouble}

(* the step in which the call of instance i goes from the agent call to    *)
(* its end, the save not failing                                           *)
AgentStep(i) ==
    /\ inv[i].pc = "loaded"
    /\ inv'[i].pc = "done"
    /\ ret'.op = "process_message"
    /\ ~ret'.fault

(* the conversation of the call ends with the user message and then the    *)
(* assistant message of the given content                                  *)
EndsWith(messages, call, content) ==
    /\ Len(messages) >= 2
    /\ messages[Len(messages) - 1].role = "user"
    /\ messages[Len(messages) - 1].content = call.message_content
    /\ messages[Len(messages)].role = "assistant"
    /\ messages[Len(messages)].content = content

Persisted(documents, call, content) ==
    /\ get_conversation(documents, call.to_phone, call.conversation_id) # None
    /\ EndsWith(get_conversation(documents, call.to_phone,
                                 call.conversation_id)[1].messages,
                call, content)

(* C24: when the run of the agent fails or a call of the agent client      *)
(* raises, process_message returns success = true with an apology string   *)
(* as the response, and the conversation saved ends with the user message  *)
(* followed by the assistant message holding that apology.                 *)
C24_FailureGivesApology ==
    [][\A i \in Instances :
          (AgentStep(i) /\ ret'.outcome # "reply") =>
              /\ inv'[i].result.success
              /\ inv'[i].result.response[1] \in ApologyStrings
              /\ Persisted(store', inv[i].call, inv'[i].result.response[1])]_vars

(* a call whose agent client raised has ended with success *)
C24_RaisedAnswered ==
    /\ ret.op = "process_message"
    /\ ret.outcome = "raised"
    /\ ~ret.fault
    /\ inv[1].pc = "done"
    /\ inv[1].result.success

(* C25: when the agent service answers with the reply R, process_message   *)
(* returns response = R and the conversation saved ends with the user      *)
(* message followed by the assistant message of content R.                 *)
C25_ReplyReturned ==
    [][\A i \in Instances :
          (AgentStep(i) /\ ret'.outcome = "reply") =>
              /\ inv'[i].result.success
              /\ inv'[i].result.response[1] = ReplyTo(inv[i].call.message_content)
              /\ Persisted(store', inv[i].call,
                           ReplyTo(inv[i].call.message_content))]_vars

----------------------------------------------------------------------------
(* The writes of the registry that add a document *)

AddOps == {"add_agent", "add_channel", "add_mapping"}

(* the documents of the kind that the operation adds *)
KindOf(op, docs) ==
    CASE op = "add_agent" -> docs.agents
      [] op = "add_channel" -> docs.channels
      [] op = "add_mapping" -> docs.mappings

(* C26: add_agent, add_channel and add_mapping return a boolean; when they *)
(* return false (the write to storage failed, a duplicate id included)     *)
(* storage and the cache of the caller are as before the call, and when    *)
(* they return true storage and the cache both hold the new document.      *)
C26_AddAllOrNothing ==
    [][(writes' = writes + 1 /\ ret'.op \in AddOps /\ ret'.inst \in Instances) =>
          /\ ret'.ok \in BOOLEAN
          /\ ~ret'.ok => (cache'[ret'.inst] = cache[ret'.inst] /\ db' = db)
          /\ ret'.ok =>
                /\ ~DictHas(KindOf(ret'.op, db), ret'.arg)
                /\ DictHas(KindOf(ret'.op, db'), ret'.arg)
                /\ DictGet(KindOf(ret'.op, cache'[ret'.inst]), ret'.arg)
                     = DictGet(KindOf(ret'.op, db'), ret'.arg)]_vars

(* add_agent returned false for an id that storage holds already, and the  *)
(* cache of the caller does not hold it                                    *)
C26_DuplicateRejected ==
    /\ ret.op = "add_agent"
    /\ ret.inst \in Instances
    /\ ~ret.ok
    /\ DictHas(db.agents, ret.arg)
    /\ ~DictHas(cache[ret.inst].agents, ret.arg)

----------------------------------------------------------------------------
(* The formats of the documents the registry holds *)

WellFormedChannel(doc) ==
    /\ doc.phone_number.plus
    /\ doc.channel_type \in {"whatsapp", "sms"}

WellFormed(docs) ==
    /\ \A n \in 1..Len(docs.channels) : WellFormedChannel(docs.channels[n])
    /\ \A n \in 1..Len(docs.agents) : docs.agents[n].agent_id \in {"asst_A1", "asst_A2"}

(* C27: every channel in storage and in the caches has a phone number that *)
(* begins with '+' and a type that is whatsapp or sms, and every agent an  *)
(* agent_id with the prefix asst_.                                         *)
C27_FormatsKept ==
    /\ WellFormed(db)
    /\ \A i \in Instances : WellFormed(cache[i])

Orphaned(c) ==
    {n \in 1..Len(c.mappings) : ~DictHas(c.agents, c.mappings[n].agent_id)
                                \/ ~DictHas(c.channels, c.mappings[n].channel_id)}

SharedPhone(c) ==
    \E j, k \in 1..Len(c.channels) :
        j # k /\ c.channels[j].phone_number = c.channels[k].phone_number

Names(issues, mapping_id) ==
    \E k \in 1..Len(issues) :
        issues[k].kind \in {"agent", "channel"} /\ issues[k].subject = mapping_id

(* C28: validate_configuration answers valid = false exactly when the     *)
(* cache it is called on holds a mapping whose agent or channel does not   *)
(* exist, or two channels with the same phone number; every such mapping   *)
(* has an issue that names it; an agent without mappings gives a warning   *)
(* and no issue, so the warnings do not change valid.                      *)
C28_ValidIffNoIssue ==
    [][\A i \in Local : ValidateConfiguration(i) =>
          /\ ret'.result.valid = ~(Orphaned(cache[i]) # {} \/ SharedPhone(cache[i]))
          /\ \A n \in Orphaned(cache[i]) :
                 Names(ret'.result.issues, cache[i].mappings[n].mapping_id)
          /\ \A k \in 1..Len(ret'.result.issues) :
                 ret'.result.issues[k].kind \in {"agent", "channel", "phone"}
          /\ \A k \in 1..Len(cache[i].agents) :
                 (\A n \in 1..Len(cache'[i].mappings) :
                      cache'[i].mappings[n].agent_id # cache[i].agents[k].agent_id)
                 => \E w \in 1..Len(ret'.result.warnings) :
                        ret'.result.warnings[w] = cache[i].agents[k]]_vars

(* a valid report with a warning, and an invalid one naming an orphan *)
C28_WarningOnly ==
    /\ ret.op = "validate_configuration"
    /\ ret.result.valid
    /\ Len(ret.result.warnings) > 0

C28_OrphanReported ==
    /\ ret.op = "validate_configuration"
    /\ ~ret.result.valid
    /\ \E k \in 1..Len(ret.result.issues) : ret.result.issues[k].kind = "agent"

ActiveChannels(c) == SelectSeq(c.channels, LAMBDA channel : channel.is_active)

Routed(routes) == {routes[n].id : n \in 1..Len(routes)}

SeveralRoutes(c, routes) ==
    {phone \in Routed(routes) :
        Cardinality({n \in 1..Len(ActiveChannels(c)) :
                        ActiveChannels(c)[n].phone_number = phone}) > 1}

(* C29: validate_routing_config reports an issue for every active channel  *)
(* whose phone number has no route and an issue for every phone number     *)
(* that several active channels route; valid is true only when neither     *)
(* occurs.                                                                 *)
C29_RoutingIssuesReported ==
    [][\A i \in Local : ValidateRoutingConfig(i) =>
          /\ \A n \in 1..Len(ActiveChannels(cache'[i])) :
                 ActiveChannels(cache'[i])[n].phone_number \notin Routed(routing'[i].routes)
                 => \E k \in 1..Len(ret'.result.no_route) :
                        ret'.result.no_route[k] = ActiveChannels(cache'[i])[n]
          /\ \A phone \in SeveralRoutes(cache'[i], routing'[i].routes) :
                 \E k \in 1..Len(ret'.result.multiple) :
                     ret'.result.multiple[k].id = phone
          /\ ret'.result.valid => SeveralRoutes(cache'[i], routing'[i].routes) = {}]_vars

MigrationOps == {"migrate_old_conversations", "migrate_from_single_container"}

MigrationStep ==
    \/ \E dry_run, queryFault \in BOOLEAN, faults \in SUBSET (1..MaxOldDocs), handled \in 0..MaxOldDocs :
           MigrateOldConversations(dry_run, queryFault, faults, handled)
    \/ \E queryFault \in BOOLEAN, faults \in SUBSET (1..MaxOldDocs), handled \in 0..MaxOldDocs :
           MigrateFromSingleContainer(queryFault, faults, handled)

(* C30: a migration, finished, failed or interrupted part-way, leaves the  *)
(* documents of the old container as they were, and a dry run leaves       *)
(* every container as it was.                                              *)
C30_SourceUntouched ==
    [][MigrationStep =>
          /\ Conversations(store') = Conversations(store)
          /\ ret'.dry_run => store' = store]_vars

(* a migration that copied one conversation and failed on the other *)
C30_HalfMigrated ==
    /\ ret.op \in MigrationOps
    /\ ~ret.dry_run
    /\ ret.migrated = 1
    /\ Len(ret.errors) = 1
    /\ Len(Conversations(store)) = 2
    /\ Len(store) = 3

----------------------------------------------------------------------------
(* Conversations of the queue processor and of the router *)

(* the document of a queue message: the container of its business number,  *)
(* the id made of its channel type and the digits of its sender            *)
ConversationOf(body) == DocId(body.to, <<body.channelType, body.from.body>>)

SameConversation(a, b) ==
    /\ a.channelType = b.channelType
    /\ a.from = b.from
    /\ a.to.body = b.to.body

(* C31: every message handled with success appends its user/assistant     *)
(* pair to the document of its channel type, sender and business number,   *)
(* after what the document held, and changes no other document; so two     *)
(* messages of one sender on one channel type to one business number,      *)
(* handled one after the other, are in one document in that order.         *)
C31_SameConversation ==
    [][\A n \in 1..Len(queue) :
          (HandlerStep(n) /\ queue'[n].router = "succeeded") =>
              LET id == ConversationOf(queue[n].body)
                  before == Messages(store, id)
                  after == Messages(store', id)
              IN  /\ Len(after) = Len(before) + 2
                  /\ SubSeq(after, 1, Len(before)) = before
                  /\ after[Len(before) + 1].role = "user"
                  /\ after[Len(before) + 1].content = queue[n].body.content
                  /\ after[Len(before) + 2].role = "assistant"
                  /\ \A k \in 1..Len(store) : store[k].id # id => store'[k] = store[k]
                  /\ \A k \in 1..Len(queue) :
                        SameConversation(queue[k].body, queue[n].body)
                        => ConversationOf(queue[k].body) = id]_vars

(* both messages were handled once, the second addressed without the '+', *)
(* and their document holds the two pairs in the order of handling         *)
C31_BothRecorded ==
    /\ \A n \in 1..Len(queue) :
          queue[n].router = "succeeded" /\ queue[n].deliveries = 1
    /\ ~queue[2].body.to.plus
    /\ Len(store) = 1
    /\ Len(store[1].messages) = 4
    /\ store[1].messages[1].content = "hello"
    /\ store[1].messages[3].content = "bye"

(* C32: an invocation without a conversation id works on a conversation of *)
(* its own: the id it makes is the id of no conversation in the store, so  *)
(* it loads nothing and appends to the conversation of no other            *)
(* invocation.                                                             *)
C32_FreshConversation ==
    [][\A i \in Instances :
          (calls' = calls + 1 /\ inv'[i] # inv[i] /\ inv'[i].pc = "loaded") =>
              /\ inv'[i].existing_conversation = None
              /\ ~DictHas(store, InvDoc(inv'[i]))]_vars

(* the mapping get_agent_for_phone selects among the active mappings of a  *)
(* channel: the first one flagged is_primary, else the first one           *)
Selected(mappings, cid) ==
    IF ActivePrimaries(mappings, cid) # {}
    THEN mappings[Least(ActivePrimaries(mappings, cid))]
    ELSE mappings[Least(ActiveMappings(mappings, cid))]

(* C33: every entry of a rebuilt routing cache holds an active channel of  *)
(* the registry with the phone number of the entry, and the agent selected *)
(* from the active mappings of that channel.                               *)
C33_RoutesConsistent ==
    [][\A i \in Local :
          (ValidateRoutingConfig(i) /\ routing'[i].ts # routing[i].ts) =>
              \A n \in 1..Len(routing'[i].routes) :
                  LET route == routing'[i].routes[n]
                      c == cache'[i]
                  IN  /\ \E k \in 1..Len(c.channels) :
                            /\ c.channels[k] = route.channel
                            /\ c.channels[k].is_active
                            /\ c.channels[k].phone_number = route.id
                      /\ ActiveMappings(c.mappings, route.channel.channel_id) # {}
                      /\ <<route.agent>>
                            = AgentOf(c, Selected(c.mappings,
                                                  route.channel.channel_id).agent_id)]_vars

(* the partition of a channel: the digits of its phone number *)
PartitionOf(channel_id) ==
    {<<"conversations", db.channels[k].phone_number.body>> :
        k \in {k \in 1..Len(db.channels) : db.channels[k].channel_id = channel_id}}

(* C34: the conversation of a successful call is stored in the partition   *)
(* of the phone number of the channel the call was routed through, with    *)
(* to_phone being the number of the channel or its id, and no document of  *)
(* another partition is written.                                           *)
C34_ChannelPartition ==
    [][\A i \in Instances :
          (inv[i].pc = "loaded" /\ inv'[i].pc = "done" /\ inv'[i].result.success) =>
              \A partition \in PartitionOf(inv'[i].result.routing_info[1].channel_id) :
                  /\ DictHas(store', <<partition, inv[i].call.conversation_id>>)
                  /\ \A n \in 1..Len(store') :
                        store'[n].id[1] # partition
                        => n <= Len(store) /\ store'[n] = store[n]]_vars

(* the step in which the call of instance i returns *)
Returns(i) == inv'[i] # inv[i] /\ inv'[i].pc = "done"

(* C35: no step of a process_message call that returns success = false     *)
(* writes to the conversation store: the call fails before it loads, or    *)
(* when the load raises, or when the one save raises, and in each case the *)
(* store is as it was.                                                     *)
C35_FailureWritesNothing ==
    [][\A i \in Instances :
          /\ inv'[i] # inv[i] /\ inv'[i].pc = "loaded" => store' = store
          /\ Returns(i) /\ ~inv'[i].result.success => store' = store]_vars

(* a call on a conversation of two messages made its agent call and       *)
(* failed at its save                                                      *)
C35_SaveFailed ==
    \E i \in Instances :
        /\ inv[i].pc = "done"
        /\ ~inv[i].result.success
        /\ inv[i].agent_calls = 1
        /\ Len(Messages(store, InvDoc(inv[i]))) = 2

(* C36: a message handed to the handler gets one settlement call: the      *)
(* task leaves the handler for complete_message or for abandon_message,    *)
(* and after complete_message was called for a delivery abandon_message is *)
(* not called for it.                                                      *)
C36_OneSettlement ==
    [][\A t \in 1..Len(tasks) :
          /\ tasks[t].pc = "completing" => tasks'[t].pc # "abandoning"
          /\ tasks[t].pc = "handling"
             => tasks'[t].pc \in {"handling", "completing", "abandoning"}]_vars

CreatedAt(documents, id) == DictGet(documents, id)[1].metadata.created_at

(* C37: the first save of a conversation sets its created_at to the time   *)
(* of the call, and every later successful call on the conversation leaves *)
(* the stored created_at as it was.                                        *)
C37_CreatedAtKept ==
    [][\A i \in Instances :
          (inv[i].pc = "loaded" /\ Returns(i) /\ inv'[i].result.success) =>
              CreatedAt(store', InvDoc(inv[i]))
                  = IF DictHas(store, InvDoc(inv[i]))
                    THEN CreatedAt(store, InvDoc(inv[i]))
                    ELSE now]_vars

----------------------------------------------------------------------------
(* One process.  The HTTP request of POST /route/message and the handler   *)
(* of the queue processor are tasks of one event loop and call             *)
(* process_message on the one router of the process.  A task keeps the     *)
(* loop until it awaits something that suspends.                           *)

(* an agent call that waits for the service and gives up the loop *)
AwaitsAgentService(coroutine) == {"agent service"}

(* What the body of a coroutine awaits.  _call_foundry_agent calls the     *)
(* plain function ask_foundry and awaits nothing; get_conversation and     *)
(* save_conversation are plain functions too.                              *)
Awaits(coroutine) == IF coroutine = "_call_foundry_agent" THEN {} ELSE {"io"}

(* await coroutine: the task is suspended when the coroutine awaits *)
Suspends(coroutine) == Awaits(coroutine) # {}

(* process_message from its first statement to where the task gives up     *)
(* the loop, or to its return                                              *)
RunToAwait(l, documents, outcome, fault) ==
    IF l.inv.pc = "loaded" /\ ~Suspends("_call_foundry_agent")
    THEN LET saved == process_message_save(documents, l.inv, outcome, fault)
         IN  [x |-> l.x, store |-> saved.store, inv |-> saved.inv]
    ELSE [x |-> l.x, store |-> documents, inv |-> l.inv]

(* process_message of a task that was suspended in it, to its return *)
RunFromAwait(X, documents, v, outcome, fault) ==
    LET saved == process_message_save(documents, v, outcome, fault)
    IN  [x |-> X, store |-> saved.store, inv |-> saved.inv]

(* the JSON bodies of POST /route/message, some without a message *)
Requests ==
    {[from |-> Sender, to |-> to, message |-> message, conversation_id |-> id] :
        to \in Phones, message \in Texts \cup {""},
        id \in {<<c>> : c \in ConversationIds} \cup {None}}

(* if not all([from_phone, to_phone, message_content]) *)
MissingFields(data) == data.message = ""

(* route_message: the result of process_message, or the error of a body    *)
(* with a field missing                                                    *)
route_message(X, documents, data, faultLoad, outcome, faultSave) ==
    IF MissingFields(data)
    THEN [x |-> X, store |-> documents,
          inv |-> [pc |-> "done", call |-> data, loaded |-> FALSE, agent_calls |-> 0,
                   result |-> Failure("Missing required fields", None)]]
    ELSE RunToAwait(process_message_load(X, documents, data.from, data.to,
                                         data.message,
                                         IF data.conversation_id = None THEN None
                                         ELSE data.conversation_id[1],
                                         faultLoad),
                    documents, outcome, faultSave)

(* _handle_message on a text message: process_message under the id of the  *)
(* channel type and the sender                                             *)
handle_text(X, documents, body, faultLoad, outcome, faultSave) ==
    RunToAwait(process_message_load(X, documents, body.from, body.to, body.content,
                                    ConversationId(body.channelType, body.from),
                                    faultLoad),
               documents, outcome, faultSave)

(* _handle_message after process_message returned: the reply is sent *)
SentAfter(out, sent, from_number, sendOk) ==
    IF out.inv.pc = "done"
    THEN Respond([x |-> out.x, store |-> out.store, result |-> out.inv.result],
                 "", sent, from_number, sendOk).outbox
    ELSE sent

TaskRan(t, out, sent) ==
    /\ cache' = [cache EXCEPT ![1] = out.x.r.c]
    /\ routing' = [routing EXCEPT ![1] = [routes |-> out.x.routes, ts |-> out.x.ts]]
    /\ store' = out.store
    /\ inv' = [inv EXCEPT ![t] = out.inv]
    /\ outbox' = sent

(* task 1, a request of POST /route/message, runs *)
RouteMessage ==
    /\ \E faultLoad \in BOOLEAN, outcome \in AgentOutcomes, faultSave \in BOOLEAN :
         IF inv[1].pc = "loaded"
         THEN /\ TaskRan(1, RunFromAwait(Router(1), store, inv[1], outcome, faultSave),
                         outbox)
              /\ calls' = calls
         ELSE /\ calls < MaxCalls
              /\ calls' = calls + 1
              /\ \E data \in Requests :
                    TaskRan(1, route_message(Router(1), store, data, faultLoad, outcome,
                                             faultSave),
                            outbox)
    /\ UNCHANGED <<db, now, ret, writes, ticks, queue, running>>
    /\ UNCHANGED <<loopVars, environ>>

(* task 2, the handler of the queue processor on a text message, runs *)
HandleText ==
    /\ \E faultLoad \in BOOLEAN, outcome \in AgentOutcomes, faultSave \in BOOLEAN,
          sendOk \in BOOLEAN :
         IF inv[2].pc = "loaded"
         THEN /\ LET out == RunFromAwait(Router(1), store, inv[2], outcome, faultSave)
                 IN  TaskRan(2, out, SentAfter(out, outbox, inv[2].call.from_phone, sendOk))
              /\ calls' = calls
         ELSE /\ calls < MaxCalls
              /\ calls' = calls + 1
              /\ \E body \in TextBodies(Sender) :
                    LET out == handle_text(Router(1), store, body, faultLoad, outcome,
                                           faultSave)
                    IN  TaskRan(2, out, SentAfter(out, outbox, body.from, sendOk))
    /\ UNCHANGED <<db, now, ret, writes, ticks, queue, running>>
    /\ UNCHANGED <<loopVars, environ>>

NextProcess ==
    \/ RouteMessage
    \/ HandleText

SpecProcess == InitRouter /\ [][NextProcess]_vars

Tasks == {1, 2}

(* the two messages a successful call adds to its conversation *)
PairOf(v) ==
    <<[role |-> "user", content |-> v.call.message_content,
       from_phone |-> v.call.from_phone],
      [role |-> "assistant", content |-> v.result.response[1],
       agent_id |-> v.result.routing_info[1].agent_id]>>

(* C38: in one process no task is ever between the load and the save of    *)
(* process_message when another task runs, and every call that returns     *)
(* success leaves its conversation as the stored one followed by its own   *)
(* two messages: no pair of another in-process call is lost.               *)
C38_InProcessSerialized ==
    [][\A t \in Tasks :
          /\ inv'[t].pc # "loaded"
          /\ (Returns(t) /\ inv'[t].result.success)
             => Messages(store', InvDoc(inv'[t]))
                    = Messages(store, InvDoc(inv'[t])) \o PairOf(inv'[t])]_vars

(* the request and the handler both wrote to one conversation, which holds *)
(* the pairs of both                                                       *)
C38_BothTasksWrote ==
    /\ inv[1].pc = "done" /\ inv[1].result.success
    /\ inv[2].pc = "done" /\ inv[2].result.success
    /\ InvDoc(inv[1]) = InvDoc(inv[2])
    /\ Len(Messages(store, InvDoc(inv[1]))) = 4

----------------------------------------------------------------------------
(* The tenant path.  ask_tenant_agent_internal passes the identity of its  *)
(* request to send_message of the conversation router through os.environ;  *)
(* send_message is also the handler of POST /conversation/{id}.  Both are   *)
(* plain calls: each runs from its first to its last statement.            *)

(* os.environ[name] = value *)
Setenv(e, name, value) ==
    [n \in DOMAIN e \cup {name} |-> IF n = name THEN value ELSE e[n]]

(* if name in os.environ: del os.environ[name] *)
Delenv(e, name) == [n \in DOMAIN e \ {name} |-> e[n]]

IdentityNames == {"CURRENT_TENANT_ID", "CURRENT_AGENT_ID"}

(* both variables take agent_config.get('agent_id', 'default') *)
SetIdentity(e, agent_config) ==
    Setenv(Setenv(e, "CURRENT_TENANT_ID", Get(agent_config, "agent_id", "default")),
           "CURRENT_AGENT_ID", Get(agent_config, "agent_id", "default"))

ClearIdentity(e) == Delenv(Delenv(e, "CURRENT_TENANT_ID"), "CURRENT_AGENT_ID")

(* ConversationStore.get_conversation: the document of the one container, *)
(* None when it is not there                                               *)
db_get_conversation(documents, conversation_id) ==
    First(DictGet(documents, <<OldContainer, conversation_id>>))

(* ConversationStore.save_conversation: one upsert of the whole document *)
db_save_conversation(documents, conversation_id, messages) ==
    DictPut(documents, [id |-> <<OldContainer, conversation_id>>,
                        conversation_id |-> conversation_id,
                        messages |-> messages, variables |-> <<>>])

(* the user message and the reply, under the agent and the tenant that     *)
(* send_message reads from the request and from the environment            *)
NewMessages(text_message, response, agent_id, tenant_id) ==
    <<[role |-> "user", content |-> text_message, name |-> "user",
       tenant_id |-> tenant_id],
      [role |-> "assistant", content |-> response, name |-> agent_id,
       tenant_id |-> tenant_id]>>

Raised(documents) == [store |-> documents, raised |-> TRUE, response |-> <<>>]

SaveMessages(documents, conversation_id, messages, new, fault) ==
    IF fault THEN Raised(documents)
    ELSE [store |-> db_save_conversation(documents, conversation_id, messages \o new),
          raised |-> FALSE, response |-> new]

(* send_message.  faultLoad: db.get_conversation raises; faultSave:        *)
(* db.save_conversation raises, which send_message raises again.           *)
send_message(documents, e, conversation_id, request, faultLoad, outcome, faultSave) ==
    IF faultLoad THEN Raised(documents)
    ELSE SaveMessages(documents, conversation_id,
                      IF db_get_conversation(documents, conversation_id) = None
                      THEN <<>>
                      ELSE db_get_conversation(documents, conversation_id)[1].messages,
                      NewMessages(request.message,
                                  ask_foundry(request.message, outcome),
                                  Get(e, "CURRENT_AGENT_ID", Get(e, "AGENT_ID", "default")),
                                  IF request.tenant_id # None THEN request.tenant_id[1]
                                  ELSE Get(e, "CURRENT_TENANT_ID", "default")),
                      faultSave)

Sorry == "I'm sorry, I'm having trouble processing your request right now."

(* after send_message: the two variables are deleted and the response is   *)
(* returned; when send_message raised, the except clause returns the       *)
(* apology                                                                 *)
AfterSend(e, sent) ==
    IF sent.raised
    THEN [store |-> sent.store, environ |-> e,
          response |-> <<[role |-> "assistant", content |-> Sorry]>>]
    ELSE [store |-> sent.store, environ |-> ClearIdentity(e), response |-> sent.response]

ask_tenant_agent_internal(documents, e, input_message, conversation_id, agent_config, faultLoad, outcome, faultSave) ==
    AfterSend(SetIdentity(e, agent_config),
              send_message(documents, SetIdentity(e, agent_config), conversation_id,
                           [message |-> input_message, tenant_id |-> None],
                           faultLoad, outcome, faultSave))

AgentConfigs == {[agent_id |-> "asst_A1"], [agent_id |-> "asst_A2"]}

(* f"{tenant_id}_{conversationId}" *)
TenantConversationIds == {<<"asst_A1", "default">>, <<"asst_A2", "default">>}

TenantIds == {None, <<"asst_A2">>}

AskTenantAgent ==
    /\ calls < MaxCalls
    /\ calls' = calls + 1
    /\ \E agent_config \in AgentConfigs, input_message \in Texts,
          conversation_id \in TenantConversationIds, faultLoad \in BOOLEAN,
          outcome \in AgentOutcomes, faultSave \in BOOLEAN :
         LET out == ask_tenant_agent_internal(store, environ, input_message,
                                              conversation_id, agent_config,
                                              faultLoad, outcome, faultSave)
         IN  /\ store' = out.store
             /\ environ' = out.environ
             /\ ret' = [op |-> "ask_tenant_agent_internal", agent_config |-> agent_config,
                        response |-> out.response]
    /\ UNCHANGED <<db, cache, now, writes, ticks, routing, inv>>
    /\ UNCHANGED queueVars /\ UNCHANGED loopVars

(* POST /conversation/{conversation_id} *)
SendMessage ==
    /\ calls < MaxCalls
    /\ calls' = calls + 1
    /\ \E conversation_id \in TenantConversationIds, message \in Texts,
          tenant_id \in TenantIds, faultLoad \in BOOLEAN, outcome \in AgentOutcomes,
          faultSave \in BOOLEAN :
         LET sent == send_message(store, environ, conversation_id,
                                  [message |-> message, tenant_id |-> tenant_id],
                                  faultLoad, outcome, faultSave)
         IN  /\ store' = sent.store
             /\ ret' = [op |-> "send_message", tenant_id |-> tenant_id,
                        raised |-> sent.raised, response |-> sent.response]
    /\ UNCHANGED <<db, cache, now, writes, ticks, routing, inv, environ>>
    /\ UNCHANGED queueVars /\ UNCHANGED loopVars

NextTenant ==
    \/ AskTenantAgent
    \/ SendMessage

SpecTenant == InitRegistry /\ [][NextTenant]_vars

(* C39: whenever ask_tenant_agent_internal has returned, by its normal     *)
(* path or by its error path, neither CURRENT_TENANT_ID nor                *)
(* CURRENT_AGENT_ID is set in the environment of the process.              *)
C39_IdentityCleared == \A name \in IdentityNames : name \notin DOMAIN environ

====
